---- MODULE Spec2Model ----
(***************************************************************************)
(* Model of the clinical-notes skill: the FHIR request executor            *)
(* (execute, two copies: src/unnamed/part_002 and                          *)
(* src/assets/lib/fhir-request.ts) and the DocumentReference localizer     *)
(* (src/unnamed/part_000, and its older copy src/unnamed/part_001).        *)
(*                                                                         *)
(* Conventions.  A JavaScript string is a sequence of tokens where the     *)
(* code looks inside it (file names, placeholders, replacement patterns)   *)
(* and a TLA+ string where it is only compared.  An optional value is a    *)
(* sequence of length 0 (undefined) or 1.  A JSON value is a record        *)
(* [t |-> type, v |-> content]; a JSON text is a record                    *)
(* [form |-> layout, val |-> the value it denotes].                        *)
(***************************************************************************)
EXTENDS Naturals, Sequences, FiniteSets, TLC

VARIABLES
    configDir,   \* .fhir-configs: directory entry -> <<>> or <<[text, mtime]>>
    sentinel,    \* the directories that contain a .fhir-configs directory
    cwd,         \* process.cwd() of the process that calls execute
    projectRoot, \* <<>> or <<the directory execute found .fhir-configs in>>
    pc,          \* position of the execute invocation
    lib,         \* which copy of execute the request script imported
    spec,        \* the RequestSpec of the invocation, <<>> before the call
    error,       \* <<>> or <<the Error thrown by execute>>
    request,     \* <<>> or <<the request handed to fetch>>
    fetchCount,  \* calls of fetch made by the invocation
    response,    \* <<>> or <<the response received>>
    parsed,      \* responseJson / responseExt after the parse step
    outFiles,    \* output directory -> file name -> <<>> or <<content>>
    exitCode,    \* <<>> or <<code passed to process.exit>>
    locPc,       \* position of the localizer invocation
    locEntry,    \* its entry point: "library", "cli" (part_000) or "legacy-cli" (part_001)
    locOptions,  \* <<>> or <<the LocalizationOptions / parsed CLI values>>
    locTemplate, \* <<>> or <<the template file of the mapping>>
    locRoot,     \* the project root the invocation found
    locSavedCwd, \* generateContent's const cwd, <<>> outside of it
    locFsOps,    \* the filesystem calls the invocation has made
    locError,    \* <<>> or <<the Error thrown, or reported before exit(1)>>
    locDoc,      \* <<>> or <<the document returned (library) or serialized (CLI)>>
    locOutput,   \* <<>> or <<the output file written: directory, name, text>>
    locContent,  \* <<>> or <<the content read: file text, substituted text, base64, size>>
    locGen,      \* <<>> or <<the generateContent call made: generator, cwd at the call>>
    srvState,    \* the config server: "up", "closing" (shutdown timer set) or "down"
    srvReqs,     \* the requests it has accepted, in the order of their arrival
    srvLog,      \* the requests whose end event was handled, in that order
    locCalls     \* the localizeDocumentReference calls of one process, in the order made

execVars == <<configDir, sentinel, cwd, projectRoot, pc, lib, spec, error, request,
              fetchCount, response, parsed, outFiles, exitCode>>

locVars == <<locPc, locEntry, locOptions, locTemplate, locRoot, locSavedCwd,
             locFsOps, locError, locDoc, locOutput, locContent, locGen>>

srvVars == <<srvState, srvReqs, srvLog>>

vars == <<execVars, locVars, srvVars, locCalls>>

-----------------------------------------------------------------------------
(* Bounds *)

\* modification times of config files are 1..MaxMtime
MaxMtime == 2
\* directories are the chain /, /d, /d/d, ... of this depth
MaxDepth == 1
\* requests the config server accepts in one behaviour
MaxRequests == 2

-----------------------------------------------------------------------------
(* JavaScript values *)

None == <<>>
Some(x) == <<x>>
IsSome(o) == Len(o) = 1
The(o) == o[1]

\* JavaScript truthiness of an optional string: undefined and "" are falsy
TruthyStr(o) == IsSome(o) /\ The(o) # ""

JNull == [t |-> "null", v |-> "null"]
JFalse == [t |-> "bool", v |-> "false"]
JZero == [t |-> "num", v |-> "0"]
JEmptyStr == [t |-> "str", v |-> ""]
JObj(id) == [t |-> "obj", v |-> id]

\* JavaScript truthiness of a parsed JSON value
JsTruthy(j) == ~(\/ j.t = "null"
                 \/ (j.t = "bool" /\ j.v = "false")
                 \/ (j.t = "num" /\ j.v = "0")
                 \/ (j.t = "str" /\ j.v = ""))

\* A text in some layout that denotes val; "garbage" denotes nothing.
Text(form, val) == [form |-> form, val |-> val]
Garbage == Text("garbage", [t |-> "none", v |-> "<html>"])
\* the empty string, which is not JSON either
EmptyText == Text("empty", [t |-> "none", v |-> ""])

\* JSON.parse: a SyntaxError on text that is not JSON, else the value.
JSONParse(text) ==
    IF text.form \in {"garbage", "empty"} THEN [ok |-> FALSE, val |-> text.val]
    ELSE [ok |-> TRUE, val |-> text.val]

\* JSON.stringify(value): the compact layout.
JSONStringify(val) == Text("compact", val)

\* JSON.stringify(value, null, 2): objects are laid out over indented lines,
\* scalars read the same as in the compact layout.
JSONStringify2(val) ==
    IF val.t = "obj" THEN Text("indented", val) ELSE Text("compact", val)

-----------------------------------------------------------------------------
(* Directories and project-root discovery *)

RECURSIVE DirChain(_)
DirChain(n) == IF n = 0 THEN <<>> ELSE Append(DirChain(n - 1), "d")

\* "/" is <<>>, "/d" is <<"d">>, "/d/d" is <<"d","d">>
Dirs == {DirChain(n) : n \in 0..MaxDepth}

\* path.dirname: the root is its own parent
Dirname(dir) == IF dir = <<>> THEN <<>> ELSE SubSeq(dir, 1, Len(dir) - 1)

RootNotFound == [ok |-> FALSE, dir |-> <<>>]

\* a walk that looks only at the starting directory
ExecFindRootNoWalk(start, has) ==
    IF start \in has THEN [ok |-> TRUE, dir |-> start] ELSE RootNotFound

\* execute's walk: test the directory, then stop at the filesystem root
RECURSIVE ExecFindRootFrom(_, _)
ExecFindRootFrom(dir, has) ==
    IF dir \in has THEN [ok |-> TRUE, dir |-> dir]
    ELSE IF Dirname(dir) = dir THEN RootNotFound
    ELSE ExecFindRootFrom(Dirname(dir), has)

ExecFindRoot(start, has) == ExecFindRootFrom(start, has)

-----------------------------------------------------------------------------
(* The config directory *)

ConfigNames == {"a", "b"}

\* `${name}.json`
ConfigFileName(name) == <<name, ".json">>

\* entries a .fhir-configs directory may hold: two configs and a backup copy
DirEntries == {<<"a", ".json">>, <<"b", ".json">>, <<"a", ".json", ".bak">>}

\* the configurations the files may hold (FHIRConfig)
ConfigOf ==
    [id \in {"cfgA", "cfgB", "cfgC", "cfgA2"} |->
        CASE id = "cfgA" -> [name |-> "a", fhirBaseUrl |-> "https://one/fhir",
                             accessToken |-> Some("tokenA"), mode |-> "manual"]
          [] id = "cfgB" -> [name |-> "b", fhirBaseUrl |-> "https://two/fhir",
                             accessToken |-> Some("tokenB"), mode |-> "open"]
          [] id = "cfgC" -> [name |-> "c", fhirBaseUrl |-> "https://three/fhir",
                             accessToken |-> None, mode |-> "smart"]
          [] id = "cfgA2" -> [name |-> "a", fhirBaseUrl |-> "https://four/fhir",
                              accessToken |-> None, mode |-> "open"]]

ConfigText(id) == Text("indented", JObj(id))

\* what each entry may hold
EntryTexts(f) ==
    IF f = <<"a", ".json">> THEN {ConfigText("cfgA"), Garbage}
    ELSE IF f = <<"b", ".json">> THEN {ConfigText("cfgB"), ConfigText("cfgC")}
    ELSE {Garbage}

EntryMtimes(f) == IF f[Len(f)] = ".json" THEN 1..MaxMtime ELSE {1}

EntryStates(f) ==
    {None} \cup {Some([text |-> x, mtime |-> m]) : x \in EntryTexts(f), m \in EntryMtimes(f)}

\* fs.existsSync(path.join(configsDir, f))
FileExists(dir, f) == f \in DOMAIN dir /\ IsSome(dir[f])

\* f.endsWith(suffix)
EndsWith(f, suffix) == Len(f) > 0 /\ f[Len(f)] = suffix

\* f.includes(part)
Includes(f, part) == \E i \in 1..Len(f) : f[i] = part

\* f.replace(part, ''): the first occurrence is removed
RemoveFirst(f, part) ==
    IF ~Includes(f, part) THEN f
    ELSE LET i == CHOOSE k \in 1..Len(f) : f[k] = part /\ \A j \in 1..(k - 1) : f[j] # part
         IN SubSeq(f, 1, i - 1) \o SubSeq(f, i + 1, Len(f))

\* a listing that forgets the extension filter
JsonEntriesUnfiltered(dir) == {f \in DOMAIN dir : FileExists(dir, f)}

\* fs.readdirSync(configsDir).filter(f => f.endsWith('.json'))
JsonEntries(dir) == {f \in DOMAIN dir : FileExists(dir, f) /\ EndsWith(f, ".json")}

\* the files the mtime sort may put first: those of the greatest mtime
\* (the sort is stable, so among equal mtimes readdir's order decides)
NewestEntries(dir) ==
    {f \in JsonEntries(dir) :
        \A g \in JsonEntries(dir) : The(dir[g]).mtime <= The(dir[f]).mtime}

-----------------------------------------------------------------------------
(* Errors thrown by execute: the message's kind, the names it lists and the *)
(* instruction it carries                                                   *)

Err(kind, names, hint) == [kind |-> kind, names |-> names, hint |-> hint]

ErrNoRoot == Err("Could not find .fhir-configs directory", {}, "none")
ErrConfigNotFound(name) == Err("Config not found", {<<name>>}, "none")
ErrENOENT == Err("ENOENT", {}, "none")
ErrSyntax == Err("SyntaxError", {}, "none")
ErrNoConfigsSetup == Err("No FHIR configs found in .fhir-configs/", {}, "run setup")
ErrNoConfig == Err("No FHIR config found", {}, "none")
ErrMultiple(files) ==
    Err("Multiple FHIR configs found",
        {RemoveFirst(f, ".json") : f \in files}, "add configName")
ErrFetch == Err("fetch failed", {}, "none")

Picked(f) == [ok |-> TRUE, file |-> f, err |-> ErrNoRoot]
Refused(e) == [ok |-> FALSE, file |-> <<>>, err |-> e]


-----------------------------------------------------------------------------
(* Configuration selection *)

\* the explicit name is ignored and the directory decides
SelectIgnoringName(s, dir) ==
    IF JsonEntries(dir) = {} THEN {Refused(ErrNoConfigsSetup)}
    ELSE {Picked(f) : f \in NewestEntries(dir)}

\* if (spec.configName): the named file, which must exist
SelectNamed(s, dir) ==
    LET f == ConfigFileName(The(s.configName))
    IN IF ~FileExists(dir, f) THEN {Refused(ErrConfigNotFound(The(s.configName)))}
       ELSE {Picked(f)}

\* the count test is off by one: a single config is refused as ambiguous
SelectAutoOffByOne(s, dir) ==
    LET files == JsonEntries(dir)
    IN IF Cardinality(files) = 0 THEN {Refused(ErrNoConfigsSetup)}
       ELSE {Refused(ErrMultiple(files))}

\* no configName: none is fatal, several are fatal, the only one is used
SelectAuto(s, dir) ==
    LET files == JsonEntries(dir)
    IN IF Cardinality(files) = 0 THEN {Refused(ErrNoConfigsSetup)}
       ELSE IF Cardinality(files) > 1 THEN {Refused(ErrMultiple(files))}
       ELSE {Picked(f) : f \in files}

\* src/unnamed/part_002: the outcomes of the "Load config" block
SelectStrict(s, dir) ==
    IF TruthyStr(s.configName) THEN SelectNamed(s, dir) ELSE SelectAuto(s, dir)

\* src/assets/lib/fhir-request.ts, configName given: readFileSync of the
\* named file, which throws ENOENT when it is absent
SelectNamedUnchecked(s, dir) ==
    LET f == ConfigFileName(The(s.configName))
    IN IF ~FileExists(dir, f) THEN {Refused(ErrENOENT)} ELSE {Picked(f)}

\* src/assets/lib/fhir-request.ts, no configName: most recently modified
SelectNewest(s, dir) ==
    IF JsonEntries(dir) = {} THEN {Refused(ErrNoConfig)}
    ELSE {Picked(f) : f \in NewestEntries(dir)}

SelectRecent(s, dir) ==
    IF TruthyStr(s.configName) THEN SelectNamedUnchecked(s, dir)
    ELSE SelectNewest(s, dir)

Select(copy, s, dir) ==
    IF copy = "strict" THEN SelectStrict(s, dir) ELSE SelectRecent(s, dir)

-----------------------------------------------------------------------------
(* Building the request *)

HeaderNames == {"Accept", "Authorization", "Content-Type"}
FhirJson == <<"application/fhir+json">>
NoHeaders == [h \in HeaderNames |-> None]

\* { 'Accept': 'application/fhir+json', ...(spec.headers || {}) }
BaseHeaders(s) ==
    LET given == IF IsSome(s.headers) THEN The(s.headers) ELSE NoHeaders
    IN [h \in HeaderNames |->
          IF IsSome(given[h]) THEN given[h]
          ELSE IF h = "Accept" THEN Some(FhirJson) ELSE None]

\* the token is sent whatever the mode
WithAuthAlways(headers, config) ==
    IF TruthyStr(config.accessToken)
    THEN [headers EXCEPT !["Authorization"] = Some(<<"Bearer ", The(config.accessToken)>>)]
    ELSE headers

\* if (config.accessToken && config.mode !== 'open') headers['Authorization'] = ...
WithAuth(headers, config) ==
    IF TruthyStr(config.accessToken) /\ config.mode # "open"
    THEN [headers EXCEPT !["Authorization"] = Some(<<"Bearer ", The(config.accessToken)>>)]
    ELSE headers

\* the path is left out of the URL
BuildUrlBaseOnly(config, s) == <<config.fhirBaseUrl>>

\* `${config.fhirBaseUrl}${spec.path}`
BuildUrl(config, s) == <<config.fhirBaseUrl, s.path>>

\* the request body files of the project, by name
BodyFileNames == {"note.json", "null.json", "broken.json", "missing.json"}
BodyStore ==
    [n \in BodyFileNames |->
        CASE n = "note.json" -> Some(Text("indented", JObj("DocumentReference")))
          [] n = "null.json" -> Some(Text("compact", JNull))
          [] n = "broken.json" -> Some(Garbage)
          [] n = "missing.json" -> None]

Built(req) == [ok |-> TRUE, req |-> req, err |-> ErrNoRoot]
NotBuilt(e) == [ok |-> FALSE, req |-> <<>>, err |-> e]

MakeRequest(s, url, headers, body) ==
    [method |-> s.method, url |-> url, headers |-> headers, body |-> body]

\* the request is built without a look at the body file
BuildRequestWithoutBodyFile(config, s) ==
    Built(MakeRequest(s, BuildUrl(config, s), WithAuth(BaseHeaders(s), config), None))

\* lines "Build URL" to the fetch call: URL, headers, body
BuildRequest(config, s) ==
    LET url == BuildUrl(config, s)
        headers == WithAuth(BaseHeaders(s), config)
    IN IF ~TruthyStr(s.bodyFile) THEN Built(MakeRequest(s, url, headers, None))
       ELSE IF ~IsSome(BodyStore[The(s.bodyFile)]) THEN NotBuilt(ErrENOENT)
       ELSE LET p == JSONParse(The(BodyStore[The(s.bodyFile)]))
            IN IF ~p.ok THEN NotBuilt(ErrSyntax)
               ELSE Built(MakeRequest(s, url,
                        [headers EXCEPT !["Content-Type"] = Some(FhirJson)],
                        IF JsTruthy(p.val) THEN Some(JSONStringify(p.val)) ELSE None))


-----------------------------------------------------------------------------
(* execute: the invocation *)

\* the directory request scripts live in (import.meta.dir of a request.ts)
ScriptDir == <<"requests">>
OutDirs == Dirs \cup {ScriptDir}
OutNames == {"response-metadata.json", "response-body.json", "response-body.txt"}
NoOutFiles == [d \in OutDirs |-> [n \in OutNames |-> None]]

\* the RequestSpecs a request script may pass
RequestSpecs ==
    [method : {"POST"},
     path : {"/DocumentReference"},
     bodyFile : {None} \cup {Some(n) : n \in BodyFileNames},
     headers : {None, Some([h \in HeaderNames |->
                              CASE h = "Accept" -> Some(<<"text/html">>)
                                [] h = "Authorization" -> Some(<<"Basic ", "caller">>)
                                [] h = "Content-Type" -> None])},
     configName : {None} \cup {Some(n) : n \in ConfigNames},
     callerDir : {None, Some(ScriptDir)}]

Statuses == {200, 400, 404}
\* "padded" is a JSON text with whitespace around it, such as a trailing newline
ResponseTexts ==
    {Text("compact", JObj("OperationOutcome")), Text("compact", JNull),
     Text("padded", JNull), Garbage}

\* first status that ends the process: if (response.status >= 400)
ErrorStatus == 400

Throw(e) ==
    /\ pc' = "threw"
    /\ error' = Some(e)
    /\ UNCHANGED <<request, fetchCount>>

\* execute(spec) up to the await of fetch, in the copy `copy`
Execute(copy, s) ==
    /\ pc = "idle"
    /\ lib' = copy
    /\ spec' = Some(s)
    /\ LET root == ExecFindRoot(cwd, sentinel)
       IN IF ~root.ok THEN Throw(ErrNoRoot)
          ELSE \E sel \in Select(copy, s, configDir) :
                 IF ~sel.ok THEN Throw(sel.err)
                 ELSE LET p == JSONParse(The(configDir[sel.file]).text)
                      IN IF ~p.ok THEN Throw(ErrSyntax)
                         ELSE LET b == BuildRequest(ConfigOf[p.val.v], s)
                              IN IF ~b.ok THEN Throw(b.err)
                                 ELSE /\ pc' = "fetching"
                                      /\ request' = Some(b.req)
                                      /\ fetchCount' = fetchCount + 1
                                      /\ error' = None
    /\ projectRoot' = (IF ExecFindRoot(cwd, sentinel).ok
                        THEN Some(ExecFindRoot(cwd, sentinel).dir) ELSE None)
    /\ UNCHANGED <<configDir, sentinel, cwd, response, parsed, outFiles, exitCode>>
    /\ UNCHANGED locVars
    /\ UNCHANGED <<srvVars, locCalls>>

\* src/unnamed/part_002
ExecuteStrict ==
    /\ pc = "idle"
    /\ \E s \in RequestSpecs : Execute("strict", s)

\* src/assets/lib/fhir-request.ts
ExecuteRecent ==
    /\ pc = "idle"
    /\ \E s \in RequestSpecs : Execute("recent", s)

\* await fetch(...) rejects and the request is sent again, once
FetchRejectRetry ==
    /\ pc = "fetching"
    /\ fetchCount < 2
    /\ fetchCount' = fetchCount + 1
    /\ UNCHANGED <<projectRoot, configDir, sentinel, cwd, pc, lib, spec, error, request,
                   response, parsed, outFiles, exitCode>>
    /\ UNCHANGED locVars
    /\ UNCHANGED <<srvVars, locCalls>>

\* await fetch(...) rejects: execute rejects with the network error
FetchReject ==
    /\ pc = "fetching"
    /\ pc' = "threw"
    /\ error' = Some(ErrFetch)
    /\ UNCHANGED <<projectRoot, configDir, sentinel, cwd, lib, spec, request, fetchCount,
                   response, parsed, outFiles, exitCode>>
    /\ UNCHANGED locVars
    /\ UNCHANGED <<srvVars, locCalls>>

\* try { responseJson = JSON.parse(responseBody); responseExt = 'json' } catch {}
ParseResponse(text) ==
    LET p == JSONParse(text)
    IN IF p.ok THEN [json |-> Some(p.val), ext |-> "json"]
       ELSE [json |-> None, ext |-> "txt"]

\* the response arrives: fetch resolves, response.text() is read and parsed
RespondWith(st, tx) ==
    /\ pc = "fetching"
    /\ response' = Some([status |-> st, text |-> tx])
    /\ parsed' = Some(ParseResponse(tx))
    /\ pc' = "received"
    /\ UNCHANGED <<projectRoot, configDir, sentinel, cwd, lib, spec, error, request,
                   fetchCount, outFiles, exitCode>>
    /\ UNCHANGED locVars
    /\ UNCHANGED <<srvVars, locCalls>>

Respond ==
    /\ pc = "fetching"
    /\ \E st \in Statuses, tx \in ResponseTexts : RespondWith(st, tx)

\* spec.callerDir || process.cwd()
OutputDir(s, dir) == IF IsSome(s.callerDir) THEN The(s.callerDir) ELSE dir

\* the response metadata object
ResponseMetadata(resp) == [t |-> "obj", v |-> "metadata", httpStatus |-> resp.status]

\* fs.writeFileSync(<outputDir>/response-metadata.json, ...)
WriteMetadata ==
    /\ pc = "received"
    /\ outFiles' = [outFiles EXCEPT
          ![OutputDir(The(spec), cwd)]["response-metadata.json"] =
              Some(JSONStringify2(ResponseMetadata(The(response))))]
    /\ pc' = "metadataWritten"
    /\ UNCHANGED <<projectRoot, configDir, sentinel, cwd, lib, spec, error, request,
                   fetchCount, response, parsed, exitCode>>
    /\ UNCHANGED locVars
    /\ UNCHANGED <<srvVars, locCalls>>

\* responseJson ? JSON.stringify(responseJson, null, 2) : responseBody
BodyFileContent(resp, prs) ==
    IF IsSome(prs.json) /\ JsTruthy(The(prs.json))
    THEN JSONStringify2(The(prs.json)) ELSE resp.text

\* `response-body.${responseExt}`
BodyFileName(prs) == IF prs.ext = "json" THEN "response-body.json" ELSE "response-body.txt"

\* fs.writeFileSync(<outputDir>/response-body.<ext>, ...)
WriteBody ==
    /\ pc = "metadataWritten"
    /\ outFiles' = [outFiles EXCEPT
          ![OutputDir(The(spec), cwd)][BodyFileName(The(parsed))] =
              Some(BodyFileContent(The(response), The(parsed)))]
    /\ pc' = "bodyWritten"
    /\ UNCHANGED <<projectRoot, configDir, sentinel, cwd, lib, spec, error, request,
                   fetchCount, response, parsed, exitCode>>
    /\ UNCHANGED locVars
    /\ UNCHANGED <<srvVars, locCalls>>

\* the process is ended on any status but the one that is exactly ErrorStatus
IsErrorStatusAbove(st) == st > ErrorStatus

\* response.status >= 400
IsErrorStatus(st) == st >= ErrorStatus

\* the summary is printed, then process.exit(1) on 4xx/5xx, else return
Finish ==
    /\ pc = "bodyWritten"
    /\ IF IsErrorStatus(The(response).status)
       THEN pc' = "exited" /\ exitCode' = Some(1)
       ELSE pc' = "returned" /\ exitCode' = exitCode
    /\ UNCHANGED <<projectRoot, configDir, sentinel, cwd, lib, spec, error, request,
                   fetchCount, response, parsed, outFiles>>
    /\ UNCHANGED locVars
    /\ UNCHANGED <<srvVars, locCalls>>

-----------------------------------------------------------------------------
(* The localizer: mapping table and project root *)

\* TEMPLATE_MAPPINGS of src/unnamed/part_000
TypeKeys == {"consultation", "progress", "pdf", "cda", "xhtml", "html", "large",
             "patient-asserted"}

Mapping(template, file, generator, contentType, noteType) ==
    [template |-> template, contentFile |-> file, contentGenerator |-> generator,
     contentType |-> contentType, noteType |-> noteType]

MappingEntry(k) ==
        CASE k = "consultation" ->
               Mapping("consultation-note.json", Some("consultation-note.txt"), None,
                       "text/plain; charset=utf-8", "Consultation note")
          [] k = "progress" ->
               Mapping("progress-note.json", Some("progress-note.txt"), None,
                       "text/plain; charset=utf-8", "Progress note")
          [] k = "pdf" ->
               Mapping("consultation-note-pdf.json", None, Some("generate-pdf.ts"),
                       "application/pdf", "Consultation note")
          [] k = "cda" ->
               Mapping("discharge-summary-cda-xml.json", None, Some("generate-cda-xml.ts"),
                       "application/cda+xml", "Discharge summary")
          [] k = "xhtml" ->
               Mapping("discharge-summary-xhtml.json", None, Some("generate-xhtml.ts"),
                       "application/xhtml+xml", "Discharge summary")
          [] k = "html" ->
               Mapping("progress-note-html.json", None, Some("generate-html.ts"),
                       "text/html; charset=utf-8", "Progress note")
          [] k = "large" ->
               Mapping("large-note.json", None, Some("generate-large-file.ts"),
                       "text/plain; charset=utf-8", "Summary of episode note")
          [] k = "patient-asserted" ->
               Mapping("patient-asserted-note.json", Some("patient-log.txt"), None,
                       "text/plain; charset=utf-8", "Progress note")

\* a table whose entry for "large" names no content source
TEMPLATE_MAPPINGS_NO_SOURCE ==
    [k \in TypeKeys |->
        IF k = "large"
        THEN Mapping("large-note.json", None, None, "text/plain; charset=utf-8",
                     "Summary of episode note")
        ELSE MappingEntry(k)]

TEMPLATE_MAPPINGS == [k \in TypeKeys |-> MappingEntry(k)]

\* TEMPLATE_MAPPINGS of src/unnamed/part_001: "plaintext" stands where the
\* newer table has "consultation" and "progress"
LegacyTypeKeys == {"plaintext", "pdf", "cda", "xhtml", "html", "large", "patient-asserted"}

LEGACY_TEMPLATE_MAPPINGS ==
    [k \in LegacyTypeKeys |->
        IF k = "plaintext"
        THEN Mapping("progress-note.json", Some("progress-note.txt"), None,
                     "text/plain; charset=utf-8", "Progress note")
        ELSE TEMPLATE_MAPPINGS[k]]

\* property names every object inherits from Object.prototype
InheritedKeys == {"constructor"}

\* TEMPLATE_MAPPINGS[type]: an entry, an inherited member (truthy, with no
\* contentFile and no contentGenerator), or undefined
Lookup(table, type) ==
    IF IsSome(type) /\ The(type) \in DOMAIN table
    THEN [kind |-> "entry", entry |-> table[The(type)]]
    ELSE IF IsSome(type) /\ The(type) \in InheritedKeys
    THEN [kind |-> "inherited", entry |-> Mapping("undefined", None, None, "undefined", "undefined")]
    ELSE [kind |-> "undefined", entry |-> Mapping("undefined", None, None, "undefined", "undefined")]

\* getProjectRoot: the loop ends at "/" without testing it
RECURSIVE GetProjectRootFrom(_, _)
GetProjectRootFrom(dir, has) ==
    IF dir = <<>> THEN RootNotFound
    ELSE IF dir \in has THEN [ok |-> TRUE, dir |-> dir]
    ELSE GetProjectRootFrom(Dirname(dir), has)

GetProjectRoot(start, has) == GetProjectRootFrom(start, has)

\* the filesystem calls getProjectRoot makes: existsSync unless it starts at "/"
GetProjectRootOps(start) == IF start = <<>> THEN {} ELSE {"existsSync"}

\* <skillRoot>/assets/sample-content, the generators' working directory
SampleContentDir(root) ==
    root \o <<".claude", "skills", "write-clinical-notes", "assets", "sample-content">>

\* <projectRoot>/localized/<server>, and a directory named by --output-dir
LocalizedDir(root, server) == root \o <<"localized", server>>
GivenOutputDir == <<"given-out">>

-----------------------------------------------------------------------------
(* Placeholder substitution: String.prototype.replace(/\{\{X\}\}/g, value) *)

\* the replacement string as it is inserted for one match: "$$" inserts "$",
\* "$&" inserts the matched text, any other "$" stands for itself
RECURSIVE ExpandReplacementFrom(_, _)
ExpandReplacementFrom(value, match) ==
    IF value = <<>> THEN <<>>
    ELSE IF Head(value) = "$" /\ Len(value) >= 2 /\ value[2] = "$"
    THEN <<"$">> \o ExpandReplacementFrom(SubSeq(value, 3, Len(value)), match)
    ELSE IF Head(value) = "$" /\ Len(value) >= 2 /\ value[2] = "&"
    THEN <<match>> \o ExpandReplacementFrom(SubSeq(value, 3, Len(value)), match)
    ELSE <<Head(value)>> \o ExpandReplacementFrom(Tail(value), match)

\* a replacement string without '$' stands for itself
ExpandReplacement(value, match) ==
    IF \A i \in 1..Len(value) : value[i] # "$" THEN value
    ELSE ExpandReplacementFrom(value, match)

\* text.replace(/placeholder/g, value): every occurrence is replaced, so the
\* result over a text is the results over its two halves, joined
RECURSIVE ReplaceAll(_, _, _)
ReplaceAll(text, placeholder, value) ==
    IF text = <<>> THEN <<>>
    ELSE IF Len(text) = 1
    THEN (IF text[1] = placeholder THEN ExpandReplacement(value, placeholder) ELSE text)
    ELSE ReplaceAll(SubSeq(text, 1, Len(text) \div 2), placeholder, value)
         \o ReplaceAll(SubSeq(text, Len(text) \div 2 + 1, Len(text)), placeholder, value)

\* a chain of replace calls, in order; pairs is a sequence of <<placeholder, value>>
RECURSIVE ReplaceChain(_, _)
ReplaceChain(text, pairs) ==
    IF pairs = <<>> THEN text
    ELSE CHOOSE result \in {ReplaceChain(replaced, Tail(pairs)) :
                               replaced \in {ReplaceAll(text, Head(pairs)[1], Head(pairs)[2])}} :
            TRUE

\* JavaScript truthiness of an optional string held as tokens
TruthyTokens(o) == IsSome(o) /\ The(o) # <<>>

\* s.trim() !== ''
Whitespace == {" "}
NonBlank(tokens) == \E i \in 1..Len(tokens) : tokens[i] \notin Whitespace

\* options.x || fallback
OrElse(o, fallback) == IF TruthyTokens(o) THEN The(o) ELSE fallback

\* a string value used as a replacement; undefined is converted to "undefined"
AsReplacement(o) == IF IsSome(o) THEN <<The(o)>> ELSE <<"undefined">>

\* tokens that end a JSON string literal early or are not allowed in one: a
\* double quote, a word with a double quote, a control character
StringBreakers == {"\"", "O\"Brien", "\t"}

\* the text of a JSON string literal is well formed
StringLiteralOk(tokens) == \A i \in 1..Len(tokens) : tokens[i] \notin StringBreakers

-----------------------------------------------------------------------------
(* The content: placeholder substitution, UTF-8 bytes and base64 *)

ContentTokens ==
    {"a", "é", "€", "|", " ",
     "\t", "$", "&", "undefined", "patient-123",
     "Test", "Patient", "Example", "Provider", "Dr.",
     "MD", "Mary", "Ann", "Smith", "FHIR Test App",
     "2025-01-15", "14:30", "2025-01-15T14:30:00.000Z", "20250115T143000-0500", "{{PATIENT_NAME}}",
     "{{PATIENT_ID}}", "{{PATIENT_GIVEN_NAME}}", "{{PATIENT_FAMILY_NAME}}", "{{AUTHOR_NAME}}", "{{AUTHOR_GIVEN_NAME}}",
     "{{AUTHOR_FAMILY_NAME}}", "{{AUTHOR_SUFFIX}}", "{{AUTHOR_TITLE}}", "{{APP_NAME}}", "{{CURRENT_DATE}}",
     "{{CURRENT_TIME}}", "{{CURRENT_TIMESTAMP}}", "{{CURRENT_TIMESTAMP_CDA}}",
     "O\"Brien"}

\* the UTF-8 bytes of each token
TokenBytes ==
    [t \in ContentTokens |->
        CASE t = "a" -> <<97>>
          [] t = "é" -> <<195, 169>>
          [] t = "€" -> <<226, 130, 172>>
          [] t = "|" -> <<124>>
          [] t = " " -> <<32>>
          [] t = "\t" -> <<9>>
          [] t = "$" -> <<36>>
          [] t = "&" -> <<38>>
          [] t = "undefined" -> <<117, 110, 100, 101, 102, 105, 110, 101, 100>>
          [] t = "patient-123" -> <<112, 97, 116, 105, 101, 110, 116, 45, 49, 50, 51>>
          [] t = "Test" -> <<84, 101, 115, 116>>
          [] t = "Patient" -> <<80, 97, 116, 105, 101, 110, 116>>
          [] t = "Example" -> <<69, 120, 97, 109, 112, 108, 101>>
          [] t = "Provider" -> <<80, 114, 111, 118, 105, 100, 101, 114>>
          [] t = "Dr." -> <<68, 114, 46>>
          [] t = "MD" -> <<77, 68>>
          [] t = "Mary" -> <<77, 97, 114, 121>>
          [] t = "Ann" -> <<65, 110, 110>>
          [] t = "Smith" -> <<83, 109, 105, 116, 104>>
          [] t = "O\"Brien" -> <<79, 34, 66, 114, 105, 101, 110>>
          [] t = "FHIR Test App" -> <<70, 72, 73, 82, 32, 84, 101, 115, 116, 32, 65, 112, 112>>
          [] t = "2025-01-15" -> <<50, 48, 50, 53, 45, 48, 49, 45, 49, 53>>
          [] t = "14:30" -> <<49, 52, 58, 51, 48>>
          [] t = "2025-01-15T14:30:00.000Z" -> <<50, 48, 50, 53, 45, 48, 49, 45, 49, 53, 84, 49, 52, 58, 51, 48, 58, 48, 48, 46, 48, 48, 48, 90>>
          [] t = "20250115T143000-0500" -> <<50, 48, 50, 53, 48, 49, 49, 53, 84, 49, 52, 51, 48, 48, 48, 45, 48, 53, 48, 48>>
          [] t = "{{PATIENT_NAME}}" -> <<123, 123, 80, 65, 84, 73, 69, 78, 84, 95, 78, 65, 77, 69, 125, 125>>
          [] t = "{{PATIENT_ID}}" -> <<123, 123, 80, 65, 84, 73, 69, 78, 84, 95, 73, 68, 125, 125>>
          [] t = "{{PATIENT_GIVEN_NAME}}" -> <<123, 123, 80, 65, 84, 73, 69, 78, 84, 95, 71, 73, 86, 69, 78, 95, 78, 65, 77, 69, 125, 125>>
          [] t = "{{PATIENT_FAMILY_NAME}}" -> <<123, 123, 80, 65, 84, 73, 69, 78, 84, 95, 70, 65, 77, 73, 76, 89, 95, 78, 65, 77, 69, 125, 125>>
          [] t = "{{AUTHOR_NAME}}" -> <<123, 123, 65, 85, 84, 72, 79, 82, 95, 78, 65, 77, 69, 125, 125>>
          [] t = "{{AUTHOR_GIVEN_NAME}}" -> <<123, 123, 65, 85, 84, 72, 79, 82, 95, 71, 73, 86, 69, 78, 95, 78, 65, 77, 69, 125, 125>>
          [] t = "{{AUTHOR_FAMILY_NAME}}" -> <<123, 123, 65, 85, 84, 72, 79, 82, 95, 70, 65, 77, 73, 76, 89, 95, 78, 65, 77, 69, 125, 125>>
          [] t = "{{AUTHOR_SUFFIX}}" -> <<123, 123, 65, 85, 84, 72, 79, 82, 95, 83, 85, 70, 70, 73, 88, 125, 125>>
          [] t = "{{AUTHOR_TITLE}}" -> <<123, 123, 65, 85, 84, 72, 79, 82, 95, 84, 73, 84, 76, 69, 125, 125>>
          [] t = "{{APP_NAME}}" -> <<123, 123, 65, 80, 80, 95, 78, 65, 77, 69, 125, 125>>
          [] t = "{{CURRENT_DATE}}" -> <<123, 123, 67, 85, 82, 82, 69, 78, 84, 95, 68, 65, 84, 69, 125, 125>>
          [] t = "{{CURRENT_TIME}}" -> <<123, 123, 67, 85, 82, 82, 69, 78, 84, 95, 84, 73, 77, 69, 125, 125>>
          [] t = "{{CURRENT_TIMESTAMP}}" -> <<123, 123, 67, 85, 82, 82, 69, 78, 84, 95, 84, 73, 77, 69, 83, 84, 65, 77, 80, 125, 125>>
          [] t = "{{CURRENT_TIMESTAMP_CDA}}" -> <<123, 123, 67, 85, 82, 82, 69, 78, 84, 95, 84, 73, 77, 69, 83, 84, 65, 77, 80, 95, 67, 68, 65, 125, 125>>]

\* Buffer.from(contentText, 'utf-8')
RECURSIVE Utf8(_)
Utf8(text) ==
    IF text = <<>> THEN <<>>
    ELSE IF Len(text) = 1 THEN TokenBytes[text[1]]
    ELSE Utf8(SubSeq(text, 1, Len(text) \div 2))
         \o Utf8(SubSeq(text, Len(text) \div 2 + 1, Len(text)))

Base64Alphabet ==
    <<"A", "B", "C", "D", "E", "F", "G", "H", "I", "J", "K", "L", "M", "N", "O", "P",
      "Q", "R", "S", "T", "U", "V", "W", "X", "Y", "Z", "a", "b", "c", "d", "e", "f",
      "g", "h", "i", "j", "k", "l", "m", "n", "o", "p", "q", "r", "s", "t", "u", "v",
      "w", "x", "y", "z", "0", "1", "2", "3", "4", "5", "6", "7", "8", "9", "+", "/">>

Base64Char(sextet) == Base64Alphabet[sextet + 1]
Base64Index(c) == (CHOOSE i \in 1..Len(Base64Alphabet) : Base64Alphabet[i] = c) - 1

\* the padding is left out
RECURSIVE Base64EncodeUnpadded(_)
Base64EncodeUnpadded(bytes) ==
    IF bytes = <<>> THEN <<>>
    ELSE IF Len(bytes) = 1
    THEN <<Base64Char(bytes[1] \div 4), Base64Char((bytes[1] % 4) * 16)>>
    ELSE IF Len(bytes) = 2
    THEN LET v == bytes[1] * 256 + bytes[2]
         IN <<Base64Char(v \div 1024), Base64Char((v \div 16) % 64), Base64Char((v % 16) * 4)>>
    ELSE LET v == bytes[1] * 65536 + bytes[2] * 256 + bytes[3]
         IN <<Base64Char(v \div 262144), Base64Char((v \div 4096) % 64),
              Base64Char((v \div 64) % 64), Base64Char(v % 64)>>
            \o Base64EncodeUnpadded(SubSeq(bytes, 4, Len(bytes)))

\* content.toString('base64'): three bytes to four characters, '=' padding
RECURSIVE Base64Encode(_)
Base64Encode(bytes) ==
    IF bytes = <<>> THEN <<>>
    ELSE IF Len(bytes) = 1
    THEN <<Base64Char(bytes[1] \div 4), Base64Char((bytes[1] % 4) * 16), "=", "=">>
    ELSE IF Len(bytes) = 2
    THEN LET v == bytes[1] * 256 + bytes[2]
         IN <<Base64Char(v \div 1024), Base64Char((v \div 16) % 64),
              Base64Char((v % 16) * 4), "=">>
    ELSE LET v == bytes[1] * 65536 + bytes[2] * 256 + bytes[3]
         IN <<Base64Char(v \div 262144), Base64Char((v \div 4096) % 64),
              Base64Char((v \div 64) % 64), Base64Char(v % 64)>>
            \o Base64Encode(SubSeq(bytes, 4, Len(bytes)))

\* the number of characters of the text
ContentSizeInTokens(text, bytes) == Len(text)

\* contentData.content.length: the number of bytes of the Buffer
ContentSize(text, bytes) == Len(bytes)

\* s.split(' '): the pieces between single spaces
RECURSIVE SplitFrom(_, _, _)
SplitFrom(tokens, piece, pieces) ==
    IF tokens = <<>> THEN Append(pieces, piece)
    ELSE IF Head(tokens) = " " THEN SplitFrom(Tail(tokens), <<>>, Append(pieces, piece))
    ELSE SplitFrom(Tail(tokens), Append(piece, Head(tokens)), pieces)
Split(tokens) == SplitFrom(tokens, <<>>, <<>>)

\* \s of a regular expression
RegexSpace == {" ", "\t"}

\* s.replace(/^\s*/, '')
RECURSIVE DropLeadingSpace(_)
DropLeadingSpace(tokens) ==
    IF tokens # <<>> /\ Head(tokens) \in RegexSpace THEN DropLeadingSpace(Tail(tokens))
    ELSE tokens

\* authorDisplay.replace(/^Dr\.\s*/, '')
StripDr(tokens) ==
    IF tokens # <<>> /\ Head(tokens) = "Dr." THEN DropLeadingSpace(Tail(tokens)) ELSE tokens

DefaultPatientName == <<"Test", " ", "Patient">>
DefaultAuthorDisplay == <<"Dr.", " ", "Example", " ", "Provider">>

\* const [patientGiven = 'Test', patientFamily = 'Patient'] = patientName.split(' ')
PatientGiven(o) == Split(OrElse(o.patientName, DefaultPatientName))[1]
PatientFamily(o) ==
    LET parts == Split(OrElse(o.patientName, DefaultPatientName))
    IN IF Len(parts) >= 2 THEN parts[2] ELSE <<"Patient">>

AuthorParts(o) == Split(StripDr(OrElse(o.authorDisplay, DefaultAuthorDisplay)))

\* authorParts[0] || 'Example'
AuthorGiven(o) == IF AuthorParts(o)[1] # <<>> THEN AuthorParts(o)[1] ELSE <<"Example">>

\* authorParts[authorParts.length - 1] || 'Provider'
AuthorFamily(o) ==
    IF AuthorParts(o)[Len(AuthorParts(o))] # <<>>
    THEN AuthorParts(o)[Len(AuthorParts(o))] ELSE <<"Provider">>

\* authorDisplay.includes('MD') ? 'MD' : ''
AuthorSuffix(o) ==
    IF Includes(OrElse(o.authorDisplay, DefaultAuthorDisplay), "MD") THEN <<"MD">> ELSE <<>>

\* the replace chain of replaceContentPlaceholders; src/unnamed/part_001 has
\* no {{APP_NAME}} in it
ContentPairs(entry, o) ==
    << <<"{{PATIENT_NAME}}", OrElse(o.patientName, DefaultPatientName)>>,
       <<"{{PATIENT_ID}}", AsReplacement(o.patientId)>>,
       <<"{{PATIENT_GIVEN_NAME}}", PatientGiven(o)>>,
       <<"{{PATIENT_FAMILY_NAME}}", PatientFamily(o)>>,
       <<"{{AUTHOR_NAME}}", OrElse(o.authorDisplay, DefaultAuthorDisplay)>>,
       <<"{{AUTHOR_GIVEN_NAME}}", AuthorGiven(o)>>,
       <<"{{AUTHOR_FAMILY_NAME}}", AuthorFamily(o)>>,
       <<"{{AUTHOR_SUFFIX}}", AuthorSuffix(o)>>,
       <<"{{AUTHOR_TITLE}}", IF AuthorSuffix(o) # <<>> THEN AuthorSuffix(o) ELSE <<"MD">> >> >>
    \o (IF entry = "legacy-cli" THEN <<>> ELSE << <<"{{APP_NAME}}", <<"FHIR Test App">> >> >>)
    \o << <<"{{CURRENT_DATE}}", <<"2025-01-15">> >>,
          <<"{{CURRENT_TIME}}", <<"14:30">> >>,
          <<"{{CURRENT_TIMESTAMP}}", <<"2025-01-15T14:30:00.000Z">> >>,
          <<"{{CURRENT_TIMESTAMP_CDA}}", <<"20250115T143000-0500">> >> >>

ReplaceContentPlaceholders(entry, content, o) == ReplaceChain(content, ContentPairs(entry, o))

\* readFileSync(contentPath, 'utf-8'), substitution, Buffer.from, base64, length
ContentFromBytes(raw, text, bytes) ==
    [raw |-> raw, text |-> text, base64 |-> Base64Encode(bytes),
     size |-> ContentSize(text, bytes)]
ContentFromText(raw, text) == ContentFromBytes(raw, text, Utf8(text))
ContentData(entry, content, o) ==
    ContentFromText(content, ReplaceContentPlaceholders(entry, content, o))

-----------------------------------------------------------------------------
(* localizeTemplate *)

\* a template file: the strings of the DocumentReference that the claims read
Entry(reference, display) == [reference |-> reference, display |-> display]
Template(encounter, contained) ==
    [subject |-> <<"Patient/", "{{PATIENT_ID}}">>,
     subjectDisplay |-> <<"{{PATIENT_NAME}}">>,
     contentType |-> <<"{{CONTENT_TYPE}}">>,
     data |-> <<"{{BASE64_CONTENT}}">>,
     size |-> <<"{{CONTENT_SIZE}}">>,
     encounter |-> encounter,
     contained |-> contained]

\* the document: the parsed template
Doc(subject, subjectDisplay, contentType, data, size, encounter, contained) ==
    [t |-> "obj", v |-> "DocumentReference", subject |-> subject,
     subjectDisplay |-> subjectDisplay, contentType |-> contentType, data |-> data,
     size |-> size, encounter |-> encounter, contained |-> contained]

ReplaceOpt(o, pairs) == IF IsSome(o) THEN Some(ReplaceChain(The(o), pairs)) ELSE None

ReplaceEntries(entries, pairs) ==
    [i \in 1..Len(entries) |->
        Entry(ReplaceOpt(entries[i].reference, pairs), ReplaceOpt(entries[i].display, pairs))]

\* the replace chain applied to the template text
ReplaceInTemplate(tmpl, pairs) ==
    Doc(ReplaceChain(tmpl.subject, pairs),
        ReplaceChain(tmpl.subjectDisplay, pairs),
        ReplaceChain(tmpl.contentType, pairs),
        ReplaceChain(tmpl.data, pairs),
        ReplaceChain(tmpl.size, pairs),
        IF IsSome(tmpl.encounter) THEN Some(ReplaceEntries(The(tmpl.encounter), pairs)) ELSE None,
        tmpl.contained)

\* JSON.parse(localized) accepts every text
ParsesAsJsonAlways(doc) == TRUE

\* JSON.parse(localized) succeeds: every string literal is still well formed
ParsesAsJson(doc) ==
    /\ StringLiteralOk(doc.subject)
    /\ StringLiteralOk(doc.subjectDisplay)
    /\ StringLiteralOk(doc.contentType)
    /\ StringLiteralOk(doc.data)
    /\ IsSome(doc.encounter) =>
         \A i \in 1..Len(The(doc.encounter)) :
            LET e == The(doc.encounter)[i]
            IN /\ IsSome(e.reference) => StringLiteralOk(The(e.reference))
               /\ IsSome(e.display) => StringLiteralOk(The(e.display))

\* the replacements both copies make before the encounter placeholders
CommonPairs(o, base64Content, contentSize, contentType) ==
    << <<"{{IDENTIFIER_SYSTEM}}", OrElse(o.identifierSystem, <<"https://example.com/fhir-test">>)>>,
       <<"{{IDENTIFIER_VALUE}}", AsReplacement(o.type) \o <<"-", "<Date.now()>">> >>,
       <<"{{PATIENT_ID}}", AsReplacement(o.patientId)>>,
       <<"{{PATIENT_NAME}}", OrElse(o.patientName, <<"Test Patient">>)>>,
       <<"{{AUTHOR_REFERENCE}}", OrElse(o.authorReference, <<"Practitioner/example">>)>>,
       <<"{{AUTHOR_DISPLAY}}", OrElse(o.authorDisplay, <<"Dr. Example Provider">>)>> >>

\* the replacements for the encounter placeholders in src/unnamed/part_000
EncounterPairs(o) ==
    IF TruthyTokens(o.encounterReference)
    THEN << <<"{{ENCOUNTER_REFERENCE}}", The(o.encounterReference)>>,
            <<"{{ENCOUNTER_DISPLAY}}", OrElse(o.encounterDisplay, <<"Encounter">>)>> >>
    ELSE << <<"{{ENCOUNTER_REFERENCE}}", <<>> >>,
            <<"{{ENCOUNTER_DISPLAY}}", <<>> >> >>

\* the chain with a content type of its own in place of the mapping's
TemplatePairsPlainText(o, base64Content, contentSize, contentType) ==
    CommonPairs(o, base64Content, contentSize, contentType)
    \o << <<"{{CONTENT_TYPE}}", <<"text/plain">> >>,
          <<"{{BASE64_CONTENT}}", base64Content>>,
          <<"{{CONTENT_SIZE}}", contentSize>> >>
    \o EncounterPairs(o)

\* the whole chain of src/unnamed/part_000, in the order of the calls
TemplatePairs(o, base64Content, contentSize, contentType) ==
    CommonPairs(o, base64Content, contentSize, contentType)
    \o << <<"{{CURRENT_TIMESTAMP}}", <<"<timestamp>">> >>,
          <<"{{PERIOD_START}}", <<"<timestamp>">> >>,
          <<"{{PERIOD_END}}", <<"<timestamp>">> >>,
          <<"{{CONTENT_TYPE}}", <<contentType>> >>,
          <<"{{BASE64_CONTENT}}", base64Content>>,
          <<"{{CONTENT_SIZE}}", contentSize>>,
          <<"{{APP_NAME}}", <<"FHIR Test App">> >> >>
    \o EncounterPairs(o)

\* enc.reference && enc.reference.trim() !== ''
HasValidEncounter(entries) ==
    \E i \in 1..Len(entries) :
        TruthyTokens(entries[i].reference) /\ NonBlank(The(entries[i].reference))

\* delete parsed.context.encounter when no reference was given and no entry
\* has a non-blank reference
EncounterAfter(o, encounter) ==
    IF ~TruthyTokens(o.encounterReference) /\ IsSome(encounter)
       /\ ~HasValidEncounter(The(encounter))
    THEN None ELSE encounter

\* the contained encounter as given: an object (library) or a string (CLI)
ObjectInput(val) == [kind |-> "object", text |-> EmptyText, val |-> val]
StringInput(text) == [kind |-> "string", text |-> text, val |-> JNull]

\* if (options.encounterContained): every object and every non-empty string
ContainedGiven(o) ==
    IsSome(o.encounterContained)
    /\ ~(The(o.encounterContained).kind = "string"
         /\ The(o.encounterContained).text.form = "empty")

\* the array is replaced by one that holds the encounter only
ContainedReplaced(contained, enc) == Some(<<enc>>)

\* if (!parsed.contained) parsed.contained = []; parsed.contained.push(enc)
ContainedAppended(contained, enc) ==
    Some((IF IsSome(contained) THEN The(contained) ELSE <<>>) \o <<enc>>)

ErrInvalidContained == Err("Invalid JSON in --encounter-contained", {}, "none")

Localized(doc) == [ok |-> TRUE, text |-> JSONStringify2(doc), err |-> ErrSyntax]
NotLocalized(e) == [ok |-> FALSE, text |-> Garbage, err |-> e]

\* localizeTemplate of src/unnamed/part_000
LocalizeTemplate(tmpl, o, base64Content, contentSize, contentType) ==
    LET localized == ReplaceInTemplate(tmpl, TemplatePairs(o, base64Content, contentSize, contentType))
    IN IF ~ParsesAsJson(localized) THEN NotLocalized(ErrSyntax)
       ELSE LET kept == [localized EXCEPT !.encounter = EncounterAfter(o, localized.encounter)]
            IN IF ~ContainedGiven(o) THEN Localized(kept)
               ELSE LET given == The(o.encounterContained)
                        p == IF given.kind = "string" THEN JSONParse(given.text)
                             ELSE [ok |-> TRUE, val |-> given.val]
                    IN IF ~p.ok THEN NotLocalized(ErrInvalidContained)
                       ELSE Localized([kept EXCEPT
                              !.contained = ContainedAppended(kept.contained, p.val)])

\* the chain of src/unnamed/part_001: the encounter placeholders are replaced
\* with '#e1' and 'Office Visit' when no value is given
LegacyTemplatePairs(o, base64Content, contentSize, contentType) ==
    CommonPairs(o, base64Content, contentSize, contentType)
    \o << <<"{{ENCOUNTER_REFERENCE}}", OrElse(o.encounterReference, <<"#e1">>)>>,
          <<"{{ENCOUNTER_DISPLAY}}", OrElse(o.encounterDisplay, <<"Office Visit">>)>>,
          <<"{{ENCOUNTER_IDENTIFIER_SYSTEM}}",
            OrElse(o.identifierSystem, <<"https://example.com/fhir-test">>) \o <<"/encounters">> >>,
          <<"{{ENCOUNTER_IDENTIFIER_VALUE}}", <<"enc-", "<Date.now()>">> >>,
          <<"{{ENCOUNTER_START}}", <<"2025-01-15T08:00:00Z">> >>,
          <<"{{ENCOUNTER_END}}", <<"2025-01-15T09:00:00Z">> >>,
          <<"{{CURRENT_TIMESTAMP}}", <<"<timestamp>">> >>,
          <<"{{PERIOD_START}}", <<"2025-01-15T08:00:00Z">> >>,
          <<"{{PERIOD_END}}", <<"2025-01-15T09:00:00Z">> >>,
          <<"{{CONTENT_TYPE}}", <<contentType>> >>,
          <<"{{BASE64_CONTENT}}", base64Content>>,
          <<"{{CONTENT_SIZE}}", contentSize>>,
          <<"{{APP_NAME}}", <<"FHIR Test App">> >> >>

\* the Encounter e1 that part_001 builds for the patient
SyntheticEncounter(o) ==
    [t |-> "obj", v |-> "Encounter/e1", subject |-> <<"Patient/">> \o AsReplacement(o.patientId)]

\* localizeTemplate of src/unnamed/part_001
LegacyLocalizeTemplate(tmpl, o, base64Content, contentSize, contentType) ==
    LET localized == ReplaceInTemplate(tmpl, LegacyTemplatePairs(o, base64Content, contentSize, contentType))
    IN IF ~ParsesAsJson(localized) THEN NotLocalized(ErrSyntax)
       ELSE IF OrElse(o.encounterReference, <<"#e1">>) = <<"#e1">> /\ ~IsSome(localized.contained)
       THEN Localized([localized EXCEPT !.contained = Some(<<SyntheticEncounter(o)>>)])
       ELSE Localized(localized)

-----------------------------------------------------------------------------
(* The localizer invocation: main (CLI) and localizeDocumentReference *)

ErrRequired == Err("--type, --patient-id, and --server are required", {}, "--help")
ErrUnknownType(keys) == Err("Unknown type", {<<k>> : k \in keys}, "none")
ErrNoProjectRoot == Err("Could not find project root", {}, "none")
ErrNoContentSource == Err("No content source specified in mapping", {}, "none")
ErrGeneratorFailed == Err("generator threw", {}, "none")
ErrGeneratorNoFile == Err("Generator did not create expected file", {}, "none")
ErrPathType == Err("TypeError: path argument must be of type string", {}, "none")

\* how the entry point reports a failure: the CLI prints and calls
\* process.exit(1), the library function throws
FailedPc(entry) == IF entry = "library" THEN "threw" ELSE "exited"
DonePc(entry) == IF entry = "library" THEN "returned" ELSE "done"

Outcome(lpc, err, doc, output, ops) ==
    [pc |-> lpc, error |-> err, doc |-> doc, output |-> output, ops |-> ops,
     content |-> None]
Failure(entry, e, ops) == Outcome(FailedPc(entry), Some(e), None, None, ops)

\* options.outputDir || resolve(projectRoot, 'localized', options.server):
\* resolve throws when server is undefined
ResolveOutputDir(o, root) ==
    IF IsSome(o.outputDir) THEN [ok |-> TRUE, dir |-> The(o.outputDir)]
    ELSE IF IsSome(o.server) THEN [ok |-> TRUE, dir |-> LocalizedDir(root, The(o.server))]
    ELSE [ok |-> FALSE, dir |-> <<>>]

\* `${type}-note.json`
OutputFileName(o) == AsReplacement(o.type) \o <<"-note.json">>

\* the output file is written whatever writeToFile says
WritesFileAlways(entry, o) == TRUE

\* the CLI writes always; the library unless writeToFile is false
WritesFile(entry, o) == entry # "library" \/ o.writeToFile # Some(FALSE)

\* contentSize.toString()
SizeText(content) == <<ToString(content.size)>>

\* localizeTemplate of the copy the entry point belongs to
LocalizeTemplateOf(entry, tmpl, o, content, mapping) ==
    IF entry = "legacy-cli"
    THEN LegacyLocalizeTemplate(tmpl, o, content.base64, SizeText(content), mapping.contentType)
    ELSE LocalizeTemplate(tmpl, o, content.base64, SizeText(content), mapping.contentType)

\* from the localized text to the end: parse, write
Deliver(entry, o, root, ops, lt) ==
    IF ~lt.ok THEN Failure(entry, lt.err, ops)
    ELSE IF ~WritesFile(entry, o)
    THEN Outcome(DonePc(entry), None, Some(JSONParse(lt.text).val), None, ops)
    ELSE IF ~ResolveOutputDir(o, root).ok THEN Failure(entry, ErrPathType, ops)
    ELSE Outcome(DonePc(entry), None, Some(JSONParse(lt.text).val),
                 Some([dir |-> ResolveOutputDir(o, root).dir, name |-> OutputFileName(o),
                       text |-> lt.text]),
                 ops \cup {"mkdirSync", "writeFileSync"})

\* from the content in hand to the end: base64, template, localizeTemplate,
\* parse, write
LocalizeWith(entry, o, tmpl, mapping, root, ops, content) ==
    [Deliver(entry, o, root, ops \cup {"readFileSync"},
             LocalizeTemplateOf(entry, tmpl, o, content, mapping))
        EXCEPT !.content = Some(content)]

\* the content file is read and substituted, then the rest
LocalizeRest(entry, o, tmpl, mapping, root, ops, file) ==
    LocalizeWith(entry, o, tmpl, mapping, root, ops, ContentData(entry, file, o))

\* the filesystem calls of getProjectRoot() followed by getSkillRoot()
RootOps(start) == GetProjectRootOps(start)

\* the part of both entry points from getProjectRoot() to the content: ends
\* the invocation, or suspends it at `await import(generatorPath)`
Acquire(entry, o, tmpl, file, mapping, start, has) ==
    LET root == GetProjectRoot(start, has)
    IN IF ~root.ok THEN Failure(entry, ErrNoProjectRoot, RootOps(start))
       ELSE IF IsSome(mapping.contentGenerator)
       THEN Outcome("awaitGenerator", None, None, None, RootOps(start) \cup {"existsSync", "chdir"})
       ELSE IF IsSome(mapping.contentFile)
       THEN LocalizeRest(entry, o, tmpl, mapping, root.dir,
                         RootOps(start) \cup {"existsSync", "readFileSync"}, file)
       ELSE Failure(entry, ErrNoContentSource, RootOps(start))

\* main(): validation of the required options and of the type, then the work
MainOutcome(entry, table, o, tmpl, file, start, has) ==
    IF ~TruthyStr(o.type) \/ ~TruthyStr(o.patientId) \/ ~TruthyStr(o.server)
    THEN Failure(entry, ErrRequired, {})
    ELSE IF Lookup(table, o.type).kind = "undefined"
    THEN Failure(entry, ErrUnknownType(DOMAIN table), {})
    ELSE Acquire(entry, o, tmpl, file, Lookup(table, o.type).entry, start, has)

\* localizeDocumentReference(): project root and skill root first, then the
\* type; patientId and server are not looked at
LibraryOutcome(o, tmpl, file, start, has) ==
    IF ~GetProjectRoot(start, has).ok
    THEN Failure("library", ErrNoProjectRoot, RootOps(start))
    ELSE IF Lookup(TEMPLATE_MAPPINGS, o.type).kind = "undefined"
    THEN Failure("library", ErrUnknownType(TypeKeys), RootOps(start))
    ELSE Acquire("library", o, tmpl, file, Lookup(TEMPLATE_MAPPINGS, o.type).entry, start, has)

StartOutcome(entry, o, tmpl, file, start, has) ==
    IF entry = "library" THEN LibraryOutcome(o, tmpl, file, start, has)
    ELSE IF entry = "cli" THEN MainOutcome(entry, TEMPLATE_MAPPINGS, o, tmpl, file, start, has)
    ELSE MainOutcome(entry, LEGACY_TEMPLATE_MAPPINGS, o, tmpl, file, start, has)

TableOf(entry) == IF entry = "legacy-cli" THEN LEGACY_TEMPLATE_MAPPINGS ELSE TEMPLATE_MAPPINGS

\* the config server is running and has accepted no request
SrvIdle ==
    /\ srvState = "up"
    /\ srvReqs = <<>>
    /\ srvLog = <<>>

LocIdle ==
    /\ locPc = "idle"
    /\ locEntry = "none"
    /\ locOptions = None
    /\ locTemplate = None
    /\ locRoot = None
    /\ locSavedCwd = None
    /\ locFsOps = {}
    /\ locError = None
    /\ locDoc = None
    /\ locOutput = None
    /\ locContent = None
    /\ locGen = None
    /\ locCalls = <<>>

\* the keys of outputMap in generateContent
OutputMapKeys == {"generate-pdf.ts", "generate-cda-xml.ts", "generate-xhtml.ts",
                  "generate-html.ts", "generate-large-file.ts"}

ErrGeneratorNotFound == Err("Generator not found", {}, "none")
ErrUnknownGenerator == Err("Unknown generator", {}, "none")

\* a call of generateContent: its generator and process.cwd() at the call
GenCall(generator, dir) == [generator |-> generator, cwd |-> dir]

\* the finally block leaves the working directory where the call found it
KeptCwd(saved, current) == current

\* finally { process.chdir(cwd) }
RestoredCwd(saved, current) == saved

\* one call of an entry point, up to its end or to the await of the generator
Localize(entry, o, tmpl, file) ==
    /\ locPc = "idle"
    /\ locEntry' = entry
    /\ locOptions' = Some(o)
    /\ locTemplate' = Some(tmpl)
    /\ \E r \in {StartOutcome(entry, o, tmpl, file, cwd, sentinel)} :
          /\ locPc' = r.pc
          /\ locError' = r.error
          /\ locDoc' = r.doc
          /\ locOutput' = r.output
          /\ locFsOps' = r.ops
          /\ locContent' = r.content
          /\ locRoot' = IF GetProjectRoot(cwd, sentinel).ok
                        THEN Some(GetProjectRoot(cwd, sentinel).dir) ELSE None
          /\ IF r.pc = "awaitGenerator"
             THEN /\ cwd' = SampleContentDir(GetProjectRoot(cwd, sentinel).dir)
                  /\ locSavedCwd' = Some(cwd)
                  /\ locGen' = Some(GenCall(The(Lookup(TableOf(entry), o.type)
                                                   .entry.contentGenerator), cwd))
             ELSE cwd' = cwd /\ locSavedCwd' = None /\ locGen' = None
    /\ UNCHANGED <<srvVars, locCalls>>
    /\ UNCHANGED <<projectRoot, configDir, sentinel, pc, lib, spec, error, request, fetchCount,
                   response, parsed, outFiles, exitCode>>

\* the generator module has run: it wrote its file, wrote none, or threw; the
\* finally block restores the working directory
GeneratorOutcome(result, file, entry, o, tmpl, mapping, root, ops) ==
    IF result = "threw" THEN Failure(entry, ErrGeneratorFailed, ops)
    ELSE IF result = "no file"
    THEN Failure(entry, ErrGeneratorNoFile, ops \cup {"existsSync"})
    ELSE LocalizeRest(entry, o, tmpl, mapping, root,
                      ops \cup {"existsSync", "readFileSync"}, file)

GeneratorDone(result, file) ==
    /\ locPc = "awaitGenerator"
    /\ locEntry # "generateContent"
    /\ \E r \in {GeneratorOutcome(result, file, locEntry, The(locOptions), The(locTemplate),
                                   Lookup(TableOf(locEntry), The(locOptions).type).entry,
                                   The(locRoot), locFsOps \cup {"import", "chdir"})} :
          /\ locPc' = r.pc
          /\ locError' = r.error
          /\ locDoc' = r.doc
          /\ locOutput' = r.output
          /\ locFsOps' = r.ops
          /\ locContent' = r.content
    /\ cwd' = RestoredCwd(The(locSavedCwd), cwd)
    /\ locSavedCwd' = None
    /\ UNCHANGED <<srvVars, locCalls>>
    /\ UNCHANGED <<projectRoot, configDir, sentinel, pc, lib, spec, error, request, fetchCount,
                   response, parsed, outFiles, exitCode,
                   locEntry, locOptions, locTemplate, locRoot, locGen>>

\* generateContent(generator, options) called by itself, up to the await:
\* 'Could not find project root' (from getSkillRoot) and 'Generator not
\* found' are thrown before the working directory is touched
GenerateContentCall(generator, o, exists) ==
    /\ locPc = "idle"
    /\ locEntry' = "generateContent"
    /\ locOptions' = Some(o)
    /\ locGen' = Some(GenCall(generator, cwd))
    /\ IF ~GetProjectRoot(cwd, sentinel).ok
       THEN /\ locPc' = "threw"
            /\ locSavedCwd' = None
            /\ cwd' = cwd
            /\ locError' = Some(ErrNoProjectRoot)
            /\ locFsOps' = RootOps(cwd)
       ELSE IF exists
       THEN /\ locPc' = "awaitGenerator"
            /\ locSavedCwd' = Some(cwd)
            /\ cwd' = SampleContentDir(GetProjectRoot(cwd, sentinel).dir)
            /\ locError' = None
            /\ locFsOps' = RootOps(cwd) \cup {"existsSync", "chdir"}
       ELSE /\ locPc' = "threw"
            /\ locSavedCwd' = None
            /\ cwd' = cwd
            /\ locError' = Some(ErrGeneratorNotFound)
            /\ locFsOps' = RootOps(cwd) \cup {"existsSync"}
    /\ UNCHANGED <<srvVars, locCalls>>
    /\ UNCHANGED <<projectRoot, configDir, sentinel, pc, lib, spec, error, request, fetchCount,
                   response, parsed, outFiles, exitCode,
                   locTemplate, locRoot, locDoc, locOutput, locContent>>

\* the rest of the try block and the finally block of that call
GenerateContentOutcome(generator, result, file, o, ops) ==
    IF result = "threw" THEN Failure("library", ErrGeneratorFailed, ops)
    ELSE IF generator \notin OutputMapKeys
    THEN Failure("library", ErrUnknownGenerator, ops)
    ELSE IF result = "no file"
    THEN Failure("library", ErrGeneratorNoFile, ops \cup {"existsSync"})
    ELSE [Outcome("returned", None, None, None, ops \cup {"existsSync", "readFileSync"})
            EXCEPT !.content = Some(ContentData("library", file, o))]

GenerateContentDone(result, file) ==
    /\ locPc = "awaitGenerator"
    /\ locEntry = "generateContent"
    /\ \E r \in {GenerateContentOutcome(The(locGen).generator, result, file,
                                         The(locOptions), locFsOps \cup {"import"})} :
          /\ locPc' = r.pc
          /\ locError' = r.error
          /\ locFsOps' = r.ops
          /\ locContent' = r.content
    /\ cwd' = RestoredCwd(The(locSavedCwd), cwd)
    /\ locSavedCwd' = None
    /\ UNCHANGED <<srvVars, locCalls>>
    /\ UNCHANGED <<projectRoot, configDir, sentinel, pc, lib, spec, error, request, fetchCount,
                   response, parsed, outFiles, exitCode,
                   locEntry, locOptions, locTemplate, locRoot, locDoc, locOutput, locGen>>

-----------------------------------------------------------------------------
(* Specification of one execute invocation over every config directory *)

InitExec ==
    /\ configDir \in {d \in [DirEntries -> UNION {EntryStates(f) : f \in DirEntries}] :
                        \A f \in DirEntries : d[f] \in EntryStates(f)}
    /\ sentinel \in SUBSET Dirs
    /\ cwd \in Dirs
    /\ projectRoot = None
    /\ pc = "idle"
    /\ lib = "none"
    /\ spec = None
    /\ error = None
    /\ request = None
    /\ fetchCount = 0
    /\ response = None
    /\ parsed = None
    /\ outFiles = NoOutFiles
    /\ exitCode = None
    /\ LocIdle
    /\ SrvIdle

NextExec ==
    \/ ExecuteStrict
    \/ ExecuteRecent
    \/ FetchReject
    \/ Respond
    \/ WriteMetadata
    \/ WriteBody
    \/ Finish

Init == InitExec
Next == NextExec
Spec == Init /\ [][Next]_vars


-----------------------------------------------------------------------------
(* Specification of request scripts run one after the other *)

\* the RequestSpecs of the scripts that are run in sequence
RunSpecs ==
    {s \in RequestSpecs :
        /\ s.headers = None
        /\ s.bodyFile \in {None, Some("broken.json"), Some("missing.json")}
        /\ s.configName \in {None, Some("b")}}

\* the config directory of the project: a.json, valid or not, and nothing else
RunConfigDirs ==
    {[f \in DirEntries |->
        IF f = <<"a", ".json">> THEN Some([text |-> x, mtime |-> 1]) ELSE None] :
     x \in EntryTexts(<<"a", ".json">>)}

RunStatuses == {200, 404}
RunResponseTexts == {Text("compact", JObj("OperationOutcome")), Garbage}

InitRuns ==
    /\ configDir \in RunConfigDirs
    /\ sentinel \in SUBSET Dirs
    /\ cwd \in Dirs
    /\ projectRoot = None
    /\ pc = "idle"
    /\ lib = "none"
    /\ spec = None
    /\ error = None
    /\ request = None
    /\ fetchCount = 0
    /\ response = None
    /\ parsed = None
    /\ outFiles = NoOutFiles
    /\ exitCode = None
    /\ LocIdle
    /\ SrvIdle

RunStrict ==
    /\ pc = "idle"
    /\ \E s \in RunSpecs : Execute("strict", s)

RunRecent ==
    /\ pc = "idle"
    /\ \E s \in RunSpecs : Execute("recent", s)

RunResponds ==
    /\ pc = "fetching"
    /\ \E st \in RunStatuses, tx \in RunResponseTexts : RespondWith(st, tx)

\* the invocation is over and the next request script is started, in a new
\* process or after the return: the files of the earlier runs are still there
NextInvocation ==
    /\ pc \in {"threw", "exited", "returned"}
    /\ pc' = "idle"
    /\ projectRoot' = None
    /\ lib' = "none"
    /\ spec' = None
    /\ error' = None
    /\ request' = None
    /\ fetchCount' = 0
    /\ response' = None
    /\ parsed' = None
    /\ exitCode' = None
    /\ UNCHANGED <<configDir, sentinel, cwd, outFiles>>
    /\ UNCHANGED locVars
    /\ UNCHANGED <<srvVars, locCalls>>

NextRuns ==
    \/ RunStrict
    \/ RunRecent
    \/ FetchReject
    \/ RunResponds
    \/ WriteMetadata
    \/ WriteBody
    \/ Finish
    \/ NextInvocation

SpecRuns == InitRuns /\ [][NextRuns]_vars

-----------------------------------------------------------------------------
(* Specification of one localizer invocation *)

PlaceholderEntry == Entry(Some(<<"{{ENCOUNTER_REFERENCE}}">>), Some(<<"{{ENCOUNTER_DISPLAY}}">>))
FixedEntry == Entry(Some(<<"Encounter/fixed">>), None)
DisplayOnlyEntry == Entry(None, Some(<<"{{ENCOUNTER_DISPLAY}}">>))
BlankEntry == Entry(Some(<<" ">>), None)

\* what a template may hold under context.encounter and under contained
EncounterShapes ==
    {None, Some(<<>>), Some(<<PlaceholderEntry>>), Some(<<PlaceholderEntry, FixedEntry>>),
     Some(<<DisplayOnlyEntry>>), Some(<<BlankEntry>>)}
ContainedShapes ==
    {None, Some(<<>>), Some(<<JObj("Practitioner/p1")>>),
     Some(<<JObj("Practitioner/p1"), JObj("Organization/o1")>>)}

\* templates that vary context.encounter, and templates that vary contained
EncounterTemplates == {Template(e, None) : e \in EncounterShapes}
ContainedTemplates == {Template(Some(<<PlaceholderEntry>>), c) : c \in ContainedShapes}
DefaultTemplate == Template(Some(<<PlaceholderEntry>>), None)

\* a template file that is not JSON: a stray quote before the patient's name
MalformedTemplate ==
    [DefaultTemplate EXCEPT !.subjectDisplay = <<"\"", "{{PATIENT_NAME}}">>]

BaseOptions ==
    [type |-> Some("patient-asserted"), patientId |-> Some("patient-123"),
     server |-> Some("smart"), patientName |-> None, authorReference |-> None,
     authorDisplay |-> None, identifierSystem |-> None, encounterReference |-> None,
     encounterDisplay |-> None, encounterContained |-> None, outputDir |-> None,
     writeToFile |-> None]

\* calls that vary the validated options
ValidationOptions ==
    {[BaseOptions EXCEPT !.type = ty, !.patientId = pid, !.server = sv,
                         !.outputDir = od, !.writeToFile = w] :
        ty \in {None, Some("consultation"), Some("pdf"), Some("unknown-format"),
                Some("constructor")},
        pid \in {None, Some("patient-123")},
        sv \in {None, Some("smart")},
        od \in {None, Some(GivenOutputDir)},
        w \in {None, Some(FALSE), Some(TRUE)}}

EncounterReferences ==
    {None, Some(<<>>), Some(<<"Encounter/visit-789">>), Some(<<"#e1">>),
     Some(<<"Encounter/a", "$", "$", "b">>), Some(<<"$", "&">>), Some(<<" ">>)}

ContainedInputs ==
    {None,
     Some(ObjectInput(JObj("Encounter/e1"))),
     Some(StringInput(Text("compact", JObj("Encounter/e1")))),
     Some(StringInput(Garbage)),
     Some(StringInput(EmptyText))}

\* calls that vary the encounter reference and display
EncounterOptions ==
    {[BaseOptions EXCEPT !.encounterReference = ref, !.encounterDisplay = disp] :
        ref \in EncounterReferences,
        disp \in {None, Some(<<"Office Visit">>)}}

\* calls that supply a contained encounter
ContainedOptions ==
    {[BaseOptions EXCEPT !.encounterReference = ref, !.encounterContained = c] :
        ref \in {None, Some(<<"#e1">>)},
        c \in ContainedInputs \ {None}}

\* calls that vary the type over the keys of both tables
TypeOptions == {[BaseOptions EXCEPT !.type = Some(k)] : k \in TypeKeys \cup LegacyTypeKeys}

\* calls that vary the names the content is personalised with
Names ==
    {None, Some(<<"Mary", " ", "Smith">>), Some(<<"Mary", " ", "Ann", " ", "Smith">>),
     Some(<<"Mary", "\t", "Smith">>), Some(<<"Mary", " ", " ", "Smith">>),
     Some(<<"Dr.", " ", "Mary", " ", "Ann", " ", "Smith", " ", "MD">>),
     Some(<<"Mary", " ", "O\"Brien">>)}
NameOptions ==
    {[BaseOptions EXCEPT !.patientName = n, !.authorDisplay = n] : n \in Names}

\* what a content file may hold: nothing, one, two and three bytes of text,
\* placeholders
DefaultContent == <<"a", "é">>
NameContent ==
    <<"{{PATIENT_GIVEN_NAME}}", "|", "{{PATIENT_FAMILY_NAME}}", "|",
      "{{AUTHOR_GIVEN_NAME}}", "|", "{{AUTHOR_FAMILY_NAME}}">>
ContentFiles ==
    {<<>>, <<"a">>, <<"é">>, DefaultContent, <<"€", "a">>,
     <<"{{PATIENT_ID}}", "|", "{{APP_NAME}}">>, NameContent}

\* a call: the options, the template and the content file of the type
Calls ==
    {<<o, DefaultTemplate, DefaultContent>> : o \in ValidationOptions}
    \cup {<<o, tmpl, DefaultContent>> : o \in EncounterOptions, tmpl \in EncounterTemplates}
    \cup {<<o, tmpl, DefaultContent>> : o \in ContainedOptions, tmpl \in ContainedTemplates}
    \cup {<<o, DefaultTemplate, file>> : o \in TypeOptions, file \in ContentFiles}
    \cup {<<o, DefaultTemplate, NameContent>> : o \in NameOptions}
    \cup {<<[BaseOptions EXCEPT !.writeToFile = w], MalformedTemplate, DefaultContent>> :
             w \in {None, Some(FALSE)}}

\* the CLI passes strings only and has no writeToFile; part_001 has no
\* --encounter-contained option
CliCall(o) ==
    /\ o.writeToFile = None
    /\ IsSome(o.encounterContained) => The(o.encounterContained).kind = "string"
LegacyCall(o) == CliCall(o) /\ o.encounterContained = None

\* localizeDocumentReference(options) of src/unnamed/part_000
LocalizeLibrary ==
    /\ locPc = "idle"
    /\ \E c \in Calls : Localize("library", c[1], c[2], c[3])

\* main() of src/unnamed/part_000
LocalizeCli ==
    /\ locPc = "idle"
    /\ \E c \in Calls : CliCall(c[1]) /\ Localize("cli", c[1], c[2], c[3])

\* main() of src/unnamed/part_001
LocalizeLegacyCli ==
    /\ locPc = "idle"
    /\ \E c \in Calls : LegacyCall(c[1]) /\ Localize("legacy-cli", c[1], c[2], c[3])

GeneratorEnds ==
    /\ locPc = "awaitGenerator"
    /\ \E result \in {"created", "no file", "threw"} :
         \E file \in (IF result = "created" THEN ContentFiles ELSE {<<>>}) :
            GeneratorDone(result, file)

ExecIdle ==
    /\ configDir = [f \in DirEntries |-> None]
    /\ projectRoot = None
    /\ pc = "idle"
    /\ lib = "none"
    /\ spec = None
    /\ error = None
    /\ request = None
    /\ fetchCount = 0
    /\ response = None
    /\ parsed = None
    /\ outFiles = NoOutFiles
    /\ exitCode = None

InitLoc ==
    /\ sentinel \in SUBSET Dirs
    /\ cwd \in Dirs
    /\ ExecIdle
    /\ LocIdle
    /\ SrvIdle

NextLoc ==
    \/ LocalizeLibrary
    \/ LocalizeCli
    \/ LocalizeLegacyCli
    \/ GeneratorEnds

SpecLoc == InitLoc /\ [][NextLoc]_vars

-----------------------------------------------------------------------------
(* Specification of generateContent, called by an entry point or by itself *)

\* the generator names of the calls: the five of outputMap and one outside it
GeneratorNames == OutputMapKeys \cup {"generate-docx.ts"}

GenerateContent ==
    /\ locPc = "idle"
    /\ \E generator \in GeneratorNames, o \in NameOptions \cup {BaseOptions},
          exists \in BOOLEAN :
            GenerateContentCall(generator, o, exists)

GenerateContentEnds ==
    /\ locPc = "awaitGenerator"
    /\ locEntry = "generateContent"
    /\ \E result \in {"created", "no file", "threw"} :
         \E file \in (IF result = "created" THEN ContentFiles ELSE {<<>>}) :
            GenerateContentDone(result, file)

NextGen ==
    \/ NextLoc
    \/ GenerateContent
    \/ GenerateContentEnds

SpecGen == InitLoc /\ [][NextGen]_vars

-----------------------------------------------------------------------------
(* Specification of localizeDocumentReference calls made by one process *)

MaxCalls == 2

\* the options of the calls: every type of the table, file-backed or not
OverlapOptions == {[BaseOptions EXCEPT !.type = Some(k), !.writeToFile = Some(FALSE)] :
                      k \in TypeKeys}

\* the calls that are suspended at `await import(generatorPath)`
Suspended(calls) == {i \in 1..Len(calls) : calls[i].out.pc = "awaitGenerator"}

\* a call up to its first await or to its end: what it found, generateContent's
\* const cwd if it got that far, and the calls suspended when it was made
CallRecord(o, start, has, calls) ==
    [options |-> o,
     cwd |-> start,
     root |-> IF GetProjectRoot(start, has).ok
              THEN Some(GetProjectRoot(start, has).dir) ELSE None,
     during |-> Suspended(calls),
     out |-> StartOutcome("library", o, DefaultTemplate, DefaultContent, start, has)]

SavedCwd(call) == call.cwd

\* the directory the process is in when the call returns to its caller
CwdAfterStart(call, current) ==
    IF call.out.pc = "awaitGenerator" THEN SampleContentDir(The(call.root)) ELSE current

\* the generator of a suspended call has run: the rest of the call
CallResumed(call, result, file) ==
    [call EXCEPT !.out =
        GeneratorOutcome(result, file, "library", call.options, DefaultTemplate,
                         Lookup(TEMPLATE_MAPPINGS, call.options.type).entry,
                         The(call.root), call.out.ops \cup {"import"})]

CallStarts ==
    /\ pc = "idle"
    /\ locPc = "idle"
    /\ Len(locCalls) < MaxCalls
    /\ \E o \in OverlapOptions :
         \E call \in {CallRecord(o, cwd, sentinel, locCalls)} :
            /\ locCalls' = Append(locCalls, call)
            /\ cwd' = CwdAfterStart(call, cwd)
    /\ UNCHANGED <<projectRoot, configDir, sentinel, pc, lib, spec, error, request,
                   fetchCount, response, parsed, outFiles, exitCode>>
    /\ UNCHANGED <<locVars, srvVars>>

CallGeneratorEnds ==
    /\ pc = "idle"
    /\ \E i \in Suspended(locCalls), result \in {"created", "no file", "threw"} :
         \E file \in (IF result = "created" THEN {DefaultContent} ELSE {<<>>}) :
            /\ locCalls' = [locCalls EXCEPT ![i] = CallResumed(locCalls[i], result, file)]
            /\ cwd' = RestoredCwd(SavedCwd(locCalls[i]), cwd)
    /\ UNCHANGED <<projectRoot, configDir, sentinel, pc, lib, spec, error, request,
                   fetchCount, response, parsed, outFiles, exitCode>>
    /\ UNCHANGED <<locVars, srvVars>>

NextOverlap ==
    \/ CallStarts
    \/ CallGeneratorEnds

SpecOverlap == InitLoc /\ [][NextOverlap]_vars

-----------------------------------------------------------------------------
(* The config server: /save-config and /delete-config *)

\* the bodies posted to /save-config: three configurations, two of them of
\* the name "a", an object without fhirBaseUrl, one without name, the JSON
\* text null and a text that is not JSON
SaveBodies == {"cfgA", "cfgA2", "cfgB", "noUrl", "noName", "null", "garbage"}

\* the bodies posted to /delete-config: {"name":"a"}, {"name":"b"}, not JSON
DeleteBodies == {"delA", "delB", "garbage"}

\* the name a /delete-config body holds
DeleteName(b) == IF b = "delA" THEN "a" ELSE "b"

\* the pieces a body arrives in: the two configurations of the name "a" come
\* in two chunks, the others in one
ChunksOf(b) == IF b \in {"cfgA", "cfgA2"} THEN << <<b, 1>>, <<b, 2>> >> ELSE << <<b, 1>> >>

\* JSON.parse(body) of the chunks put together
ParseBody(body) ==
    IF \E b \in (SaveBodies \cup DeleteBodies) \ {"garbage"} : ChunksOf(b) = body
    THEN [ok |-> TRUE,
          val |-> CHOOSE b \in (SaveBodies \cup DeleteBodies) \ {"garbage"} : ChunksOf(b) = body]
    ELSE [ok |-> FALSE, val |-> "garbage"]

\* a request the server has accepted: `sent` is the body the client posts
Accepted(url, b) ==
    [url |-> url, sent |-> b, pending |-> ChunksOf(b), body |-> <<>>,
     phase |-> "open", status |-> None]

\* one buffer for all requests: the chunk is added to the body of every open one
DataIntoShared(reqs, id) ==
    [i \in DOMAIN reqs |->
        IF reqs[i].phase # "open" THEN reqs[i]
        ELSE [reqs[i] EXCEPT !.body = Append(@, Head(reqs[id].pending)),
                             !.pending = IF i = id THEN Tail(@) ELSE @]]

\* req.on('data', chunk => { body += chunk.toString() }): body is a variable
\* of the request's own handler
DataInto(reqs, id) ==
    [reqs EXCEPT ![id].body = Append(@, Head(reqs[id].pending)),
                 ![id].pending = Tail(@)]

Answer(status, dir, state) == [status |-> status, dir |-> dir, state |-> state]

\* fs.writeFileSync(configFile, JSON.stringify(config, null, 2)); the object
\* written is the one posted with savedAt added, a field execute never reads
Written(dir, f, config) ==
    [dir EXCEPT ![f] = Some([text |-> JSONStringify2(JObj(config)), mtime |-> MaxMtime])]

\* the file stays where it is
UnlinkedNot(dir, f) == dir

\* fs.unlinkSync(configFile)
Unlinked(dir, f) == [dir EXCEPT ![f] = None]

\* config.fhirBaseUrl and config.name of the parsed body
HasUrl(b) == b \in {"cfgA", "cfgA2", "cfgB", "noName"}
NameIn(b) ==
    IF b \in {"cfgA", "cfgA2", "cfgB"} THEN Some(ConfigOf[b].name)
    ELSE IF b \in {"delA", "delB"} THEN Some(DeleteName(b))
    ELSE IF b = "noUrl" THEN Some("a")
    ELSE None

\* the end handler of /save-config: a body that is not JSON, and null, whose
\* fhirBaseUrl cannot be read, end in the catch block
SaveConfig(body, dir, state) ==
    IF ~ParseBody(body).ok THEN Answer(500, dir, state)
    ELSE IF ParseBody(body).val = "null" THEN Answer(500, dir, state)
    ELSE IF ~HasUrl(ParseBody(body).val) THEN Answer(400, dir, state)
    ELSE IF NameIn(ParseBody(body).val) = None THEN Answer(400, dir, state)
    ELSE Answer(200,
                Written(dir, ConfigFileName(The(NameIn(ParseBody(body).val))),
                        ParseBody(body).val),
                "closing")

\* the end handler of /delete-config; without a name the file looked for is
\* undefined.json
DeleteConfig(body, dir, state) ==
    IF ~ParseBody(body).ok THEN Answer(500, dir, state)
    ELSE IF ParseBody(body).val = "null" THEN Answer(500, dir, state)
    ELSE IF NameIn(ParseBody(body).val) = None THEN Answer(404, dir, state)
    ELSE IF ~FileExists(dir, ConfigFileName(The(NameIn(ParseBody(body).val))))
    THEN Answer(404, dir, state)
    ELSE Answer(200, Unlinked(dir, ConfigFileName(The(NameIn(ParseBody(body).val)))), state)

Handle(url, body, dir, state) ==
    IF url = "/save-config" THEN SaveConfig(body, dir, state)
    ELSE DeleteConfig(body, dir, state)

execUntouched ==
    <<projectRoot, sentinel, cwd, pc, lib, spec, error, request, fetchCount,
      response, parsed, outFiles, exitCode, locCalls>>

\* the server accepts a request
Arrives(url, b) ==
    /\ pc = "idle"
    /\ srvState # "down"
    /\ Len(srvReqs) < MaxRequests
    /\ srvReqs' = Append(srvReqs, Accepted(url, b))
    /\ UNCHANGED <<configDir, srvState, srvLog>>
    /\ UNCHANGED execUntouched
    /\ UNCHANGED locVars

SaveArrives ==
    /\ pc = "idle"
    /\ \E b \in SaveBodies : Arrives("/save-config", b)

DeleteArrives ==
    /\ pc = "idle"
    /\ \E b \in DeleteBodies : Arrives("/delete-config", b)

\* a data event of one request
OnData ==
    /\ pc = "idle"
    /\ srvState # "down"
    /\ \E id \in DOMAIN srvReqs :
         /\ srvReqs[id].phase = "open"
         /\ srvReqs[id].pending # <<>>
         /\ srvReqs' = DataInto(srvReqs, id)
    /\ UNCHANGED <<configDir, srvState, srvLog>>
    /\ UNCHANGED execUntouched
    /\ UNCHANGED locVars

\* the end event of one request: the handler runs to its end
OnEnd ==
    /\ pc = "idle"
    /\ srvState # "down"
    /\ \E id \in DOMAIN srvReqs :
         /\ srvReqs[id].phase = "open"
         /\ srvReqs[id].pending = <<>>
         /\ \E r \in {Handle(srvReqs[id].url, srvReqs[id].body, configDir, srvState)} :
               /\ srvReqs' = [srvReqs EXCEPT ![id].phase = "ended",
                                              ![id].status = Some(r.status)]
               /\ configDir' = r.dir
               /\ srvState' = r.state
         /\ srvLog' = Append(srvLog, id)
    /\ UNCHANGED execUntouched
    /\ UNCHANGED locVars

\* setTimeout(() => process.exit(0), 1000) fires: the requests still open
\* get no response
TimerFires ==
    /\ pc = "idle"
    /\ srvState = "closing"
    /\ srvState' = "down"
    /\ srvReqs' = [i \in DOMAIN srvReqs |->
                     IF srvReqs[i].phase = "open"
                     THEN [srvReqs[i] EXCEPT !.phase = "dropped"] ELSE srvReqs[i]]
    /\ UNCHANGED <<configDir, srvLog>>
    /\ UNCHANGED execUntouched
    /\ UNCHANGED locVars

\* setup.ts is run again
ServerStarts ==
    /\ pc = "idle"
    /\ srvState = "down"
    /\ srvState' = "up"
    /\ UNCHANGED <<configDir, srvReqs, srvLog>>
    /\ UNCHANGED execUntouched
    /\ UNCHANGED locVars

\* the request scripts that name their config
NamedSpecs ==
    {s \in RequestSpecs :
        s.headers = None /\ s.bodyFile = None /\ s.callerDir = None /\ s.configName # None}

NoneOpen == \A i \in DOMAIN srvReqs : srvReqs[i].phase # "open"

ExecuteNamedStrict ==
    /\ pc = "idle"
    /\ NoneOpen
    /\ \E s \in NamedSpecs : Execute("strict", s)

ExecuteNamedRecent ==
    /\ pc = "idle"
    /\ NoneOpen
    /\ \E s \in NamedSpecs : Execute("recent", s)

\* the server has made its config directory in the project root
InitSrv ==
    /\ sentinel = {<<>>}
    /\ cwd \in Dirs
    /\ ExecIdle
    /\ LocIdle
    /\ SrvIdle

NextSrv ==
    \/ SaveArrives
    \/ DeleteArrives
    \/ OnData
    \/ OnEnd
    \/ TimerFires
    \/ ServerStarts
    \/ ExecuteNamedStrict
    \/ ExecuteNamedRecent

SpecSrv == InitSrv /\ [][NextSrv]_vars

-----------------------------------------------------------------------------
(* Properties of configuration selection *)

\* the invocation was made and found its project root
Called == IsSome(spec) /\ ExecFindRoot(cwd, sentinel).ok

\* the *.json files of the config directory
ConfigFilesPresent == {f \in DirEntries : configDir[f] # None /\ f[Len(f)] = ".json"}

\* the config names of those files: name such that the file is <name>.json
ConfigNamesPresent == {<<n>> : n \in {m \in ConfigNames : <<m, ".json">> \in ConfigFilesPresent}}

NoHttp == request = None /\ fetchCount = 0 /\ response = None

\* the request, if one was issued, was built from the config held by file f
RequestUses(f) ==
    LET text == The(configDir[f]).text
    IN IF text.form = "garbage" THEN pc = "threw" /\ NoHttp
       ELSE LET cfg == ConfigOf[text.val.v]
            IN /\ pc = "threw" => The(error).kind \in {"ENOENT", "SyntaxError", "fetch failed"}
               /\ pc # "threw" => IsSome(request)
               /\ IsSome(request) =>
                    /\ The(request).url = <<cfg.fhirBaseUrl, The(spec).path>>
                    /\ (cfg.accessToken # None /\ cfg.mode # "open") =>
                          The(request).headers["Authorization"]
                              = Some(<<"Bearer ", The(cfg.accessToken)>>)

\* C1: without configName and with two or more *.json files in the config
\* directory, execute throws an error that lists the candidate config names
\* and asks for configName, picks none of them and issues no HTTP request.
C1_AmbiguousConfigsRefused ==
    (Called /\ ~TruthyStr(The(spec).configName) /\ Cardinality(ConfigFilesPresent) >= 2)
    => /\ pc = "threw"
       /\ The(error).names = ConfigNamesPresent
       /\ The(error).hint = "add configName"
       /\ NoHttp

\* C2: without configName and with exactly one *.json file in the config
\* directory, that file's config is the one used: the URL is its fhirBaseUrl
\* followed by spec.path and the Authorization header carries its token.
C2_SoleConfigAutoSelected ==
    (Called /\ ~TruthyStr(The(spec).configName) /\ Cardinality(ConfigFilesPresent) = 1)
    => \A f \in ConfigFilesPresent : RequestUses(f)

C2_Witness ==
    /\ Called /\ ~TruthyStr(The(spec).configName)
    /\ Cardinality(ConfigFilesPresent) = 1
    /\ configDir[<<"a", ".json", ".bak">>] # None
    /\ IsSome(request)
    /\ The(request).headers["Authorization"] = Some(<<"Bearer ", "tokenA">>)

\* C3: without configName and with no *.json file in the config directory,
\* execute throws an error that tells the user to run setup, before any HTTP
\* request is issued and before any response file is written.
C3_NoConfigsRefusedWithSetupHint ==
    (Called /\ ~TruthyStr(The(spec).configName) /\ ConfigFilesPresent = {})
    => /\ pc = "threw"
       /\ The(error).hint = "run setup"
       /\ NoHttp
       /\ outFiles = NoOutFiles

\* C4: with configName given, the config of <configName>.json is the one used
\* whatever else the directory holds and whatever the modification times; if
\* that file does not exist execute throws and issues no HTTP request.
C4_NamedConfigUsed ==
    (Called /\ TruthyStr(The(spec).configName))
    => LET f == <<The(The(spec).configName), ".json">>
       IN IF configDir[f] = None THEN pc = "threw" /\ NoHttp
          ELSE RequestUses(f)

\* the named config is the older of two, and it is used
C4_Witness ==
    /\ Called /\ The(spec).configName = Some("a")
    /\ configDir[<<"a", ".json">>] # None /\ configDir[<<"b", ".json">>] # None
    /\ The(configDir[<<"a", ".json">>]).mtime < The(configDir[<<"b", ".json">>]).mtime
    /\ IsSome(request)
    /\ The(request).url = <<"https://one/fhir", "/DocumentReference">>

\* the named config is absent while another exists, and execute threw
C4_WitnessAbsent ==
    /\ Called /\ The(spec).configName = Some("a")
    /\ configDir[<<"a", ".json">>] = None /\ configDir[<<"b", ".json">>] # None
    /\ pc = "threw"

-----------------------------------------------------------------------------
(* Properties of response handling *)

WrittenIn(dir, name) == outFiles[dir][name] # None

\* both artifacts of the response received are in the output directory
BothFilesWritten ==
    LET dir == IF The(spec).callerDir # None THEN The(The(spec).callerDir) ELSE cwd
        body == IF The(response).text.form = "garbage"
                THEN "response-body.txt" ELSE "response-body.json"
    IN /\ WrittenIn(dir, "response-metadata.json")
       /\ The(outFiles[dir]["response-metadata.json"]).val.httpStatus = The(response).status
       /\ WrittenIn(dir, body)

\* C5: a response of status >= 400 ends the process with a non-zero exit code
\* only after both response-metadata.json and response-body.{json|txt} were
\* written; a response of status < 400 has the same two files written and
\* execute returns without ending the process.
C5_FilesWrittenBeforeExit ==
    /\ pc = "exited" =>
         /\ IsSome(response) /\ The(response).status >= 400
         /\ exitCode = Some(1)
         /\ BothFilesWritten
    /\ pc = "returned" =>
         /\ IsSome(response) /\ The(response).status < 400
         /\ exitCode = None
         /\ BothFilesWritten
    /\ IsSome(response) =>
         /\ pc \in {"received", "metadataWritten", "bodyWritten", "exited", "returned"}
         /\ pc = "bodyWritten" => BothFilesWritten

C5_Witness ==
    /\ pc = "exited"
    /\ The(response).status = 404
    /\ The(response).text.form = "garbage"
    /\ BothFilesWritten

-----------------------------------------------------------------------------
(* Properties of the request sent *)

Issued == IsSome(request)

\* the configuration the request was built from, known by its base URL
UsedConfig ==
    CHOOSE c \in {ConfigOf[id] : id \in DOMAIN ConfigOf} :
        c.fhirBaseUrl = The(request).url[1]

\* the header the caller supplied under name h, if any
GivenHeader(h) == IF IsSome(The(spec).headers) THEN The(The(spec).headers)[h] ELSE None

\* C13: every request that execute issues has the header Accept with the
\* value application/fhir+json, also when the caller supplied an Accept header.
C13_AcceptAlwaysFhirJson ==
    Issued => The(request).headers["Accept"] = Some(FhirJson)

\* C14: the request has Authorization: Bearer <accessToken> of the selected
\* config exactly when that config has a token and its mode is not 'open',
\* whatever Authorization header the caller supplied; otherwise execute adds
\* none and the header is what the caller supplied, if anything.
C14_AuthorizationByMode ==
    Issued =>
        IF UsedConfig.accessToken # None /\ UsedConfig.mode # "open"
        THEN The(request).headers["Authorization"]
                = Some(<<"Bearer ", The(UsedConfig.accessToken)>>)
        ELSE The(request).headers["Authorization"] = GivenHeader("Authorization")

\* an open config that holds a token: no Authorization header is sent
C14_Witness ==
    /\ Issued
    /\ UsedConfig.mode = "open" /\ UsedConfig.accessToken # None
    /\ GivenHeader("Authorization") = None
    /\ The(request).headers["Authorization"] = None

\* the caller's Authorization header is replaced by the bearer token
C14_WitnessReplaced ==
    /\ Issued
    /\ UsedConfig.mode = "manual"
    /\ GivenHeader("Authorization") # None
    /\ The(request).headers["Authorization"] = Some(<<"Bearer ", "tokenA">>)

\* C15: a request without bodyFile and without a caller's Content-Type has no
\* Content-Type header and no body; a request with bodyFile has Content-Type
\* application/fhir+json and the JSON serialization of the parsed file as its
\* body, whatever JSON value the file holds.
C15_ContentTypeWithBodyOnly ==
    Issued =>
        IF ~IsSome(The(spec).bodyFile)
        THEN GivenHeader("Content-Type") = None
             => (The(request).headers["Content-Type"] = None /\ The(request).body = None)
        ELSE /\ The(request).headers["Content-Type"] = Some(FhirJson)
             /\ The(request).body
                  = Some(JSONStringify(JSONParse(The(BodyStore[The(The(spec).bodyFile)])).val))

\* the body file has been written
BodyWritten == pc \in {"bodyWritten", "exited", "returned"} /\ IsSome(response)

\* C16: the body file is response-body.json exactly when the response text
\* parses as JSON and then holds the 2-space-indented serialization of the
\* parsed value, whatever that value is; otherwise it is response-body.txt
\* and holds the response text unchanged.
C16_BodyFileByParse ==
    BodyWritten =>
        LET files == outFiles[OutputDir(The(spec), cwd)]
            text == The(response).text
        IN IF JSONParse(text).ok
           THEN /\ files["response-body.json"] = Some(JSONStringify2(JSONParse(text).val))
                /\ files["response-body.txt"] = None
           ELSE /\ files["response-body.txt"] = Some(text)
                /\ files["response-body.json"] = None

-----------------------------------------------------------------------------
(* Properties of the localizer *)

\* an entry point of the localizer was called
LocCalled == locPc # "idle"
LocFailed == locPc \in {"threw", "exited"}
LocProduced == locPc \in {"returned", "done"} /\ IsSome(locDoc)
LocOptions == The(locOptions)
LocGivenTemplate == The(locTemplate)
LocOutDoc == The(locDoc)

\* C6: a call of localizeDocumentReference or of the CLI of
\* src/unnamed/part_000 whose type is not a key of TEMPLATE_MAPPINGS fails
\* with the unknown-type error that lists the keys of the table, and no
\* filesystem call has been made by then, with or without a project root.
C6_UnknownTypeFailsBeforeFs ==
    (LocCalled /\ locEntry \in {"library", "cli"}
     /\ TruthyStr(LocOptions.type) /\ The(LocOptions.type) \notin TypeKeys
     /\ TruthyStr(LocOptions.patientId) /\ TruthyStr(LocOptions.server))
    => /\ LocFailed
       /\ The(locError).kind = "Unknown type"
       /\ The(locError).names = {<<k>> : k \in TypeKeys}
       /\ locFsOps = {}

\* C7: a call of either entry point without patientId or without server
\* fails validation, and by then nothing was read, no generator was started
\* and no output was written.
C7_RequiredOptionsValidatedBeforeIo ==
    (LocCalled /\ TruthyStr(LocOptions.type)
     /\ (~TruthyStr(LocOptions.patientId) \/ ~TruthyStr(LocOptions.server)))
    => /\ LocFailed
       /\ locError = Some(ErrRequired)
       /\ locFsOps = {}
       /\ locOutput = None

\* the entries of the template with both encounter placeholders emptied
EmptiedEntries(entries) ==
    [i \in 1..Len(entries) |->
        Entry(IF entries[i].reference = Some(<<"{{ENCOUNTER_REFERENCE}}">>)
              THEN Some(<<>>) ELSE entries[i].reference,
              IF entries[i].display = Some(<<"{{ENCOUNTER_DISPLAY}}">>)
              THEN Some(<<>>) ELSE entries[i].display)]

\* C8: without an encounterReference, the document has no context.encounter
\* unless one of its entries has a non-blank reference, and a
\* context.encounter it has is the template's with the placeholders replaced
\* by empty strings.
C8_NoEmptyEncounterWithoutReference ==
    (LocProduced /\ LocOptions.encounterReference = None)
    => (IsSome(LocOutDoc.encounter)
        => /\ HasValidEncounter(The(LocOutDoc.encounter))
           /\ IsSome(LocGivenTemplate.encounter)
           /\ The(LocOutDoc.encounter) = EmptiedEntries(The(LocGivenTemplate.encounter)))

\* C9: with an encounterReference, every entry of context.encounter whose
\* reference was the placeholder {{ENCOUNTER_REFERENCE}} has the supplied
\* string as its reference, token for token.
C9_EncounterReferenceVerbatim ==
    (LocProduced /\ TruthyTokens(LocOptions.encounterReference)
     /\ IsSome(LocGivenTemplate.encounter))
    => /\ IsSome(LocOutDoc.encounter)
       /\ Len(The(LocOutDoc.encounter)) = Len(The(LocGivenTemplate.encounter))
       /\ \A i \in 1..Len(The(LocGivenTemplate.encounter)) :
            The(LocGivenTemplate.encounter)[i].reference = Some(<<"{{ENCOUNTER_REFERENCE}}">>)
            => The(LocOutDoc.encounter)[i].reference = LocOptions.encounterReference

\* a contained encounter was supplied as an object or as a string that parses
ContainedSupplied ==
    /\ IsSome(LocOptions.encounterContained)
    /\ LET given == The(LocOptions.encounterContained)
       IN given.kind = "object" \/ given.text.form \in {"compact", "indented"}

\* the encounter that was supplied
SuppliedEncounter ==
    LET given == The(LocOptions.encounterContained)
    IN IF given.kind = "object" THEN given.val ELSE given.text.val

TemplateContained ==
    IF IsSome(LocGivenTemplate.contained) THEN The(LocGivenTemplate.contained) ELSE <<>>

\* C10: with a contained encounter supplied, the document's contained array
\* is one longer than the template's, every entry of the template's array is
\* at its old position, and the last entry is the supplied encounter.
C10_ContainedEncounterAppended ==
    (LocProduced /\ ContainedSupplied)
    => /\ IsSome(LocOutDoc.contained)
       /\ Len(The(LocOutDoc.contained)) = Len(TemplateContained) + 1
       /\ \A i \in 1..Len(TemplateContained) :
            The(LocOutDoc.contained)[i] = TemplateContained[i]
       /\ The(LocOutDoc.contained)[Len(TemplateContained) + 1] = SuppliedEncounter

C10_Witness ==
    /\ LocProduced /\ ContainedSupplied
    /\ The(LocOptions.encounterContained).kind = "string"
    /\ Len(TemplateContained) = 2
    /\ Len(The(LocOutDoc.contained)) = 3

-----------------------------------------------------------------------------
(* Properties of the content and of the output file *)

\* the bytes a base64 text stands for: four characters to three bytes
RECURSIVE Base64Decode(_)
Base64Decode(chars) ==
    IF chars = <<>> THEN <<>>
    ELSE IF chars[3] = "="
    THEN <<Base64Index(chars[1]) * 4 + Base64Index(chars[2]) \div 16>>
    ELSE IF chars[4] = "="
    THEN << (Base64Index(chars[1]) * 1024 + Base64Index(chars[2]) * 16
               + Base64Index(chars[3]) \div 4) \div 256,
            (Base64Index(chars[1]) * 1024 + Base64Index(chars[2]) * 16
               + Base64Index(chars[3]) \div 4) % 256 >>
    ELSE << Base64Index(chars[1]) * 4 + Base64Index(chars[2]) \div 16,
            ((Base64Index(chars[2]) % 16) * 16 + Base64Index(chars[3]) \div 4),
            ((Base64Index(chars[3]) % 4) * 64 + Base64Index(chars[4])) >>
         \o Base64Decode(SubSeq(chars, 5, Len(chars)))

\* the mapping entry of the type of the invocation
LocMapping == TableOf(locEntry)[The(LocOptions.type)]

\* C11: for every type key, the attachment data of the document decodes from
\* base64 to the UTF-8 bytes of the content text after content-level
\* substitution, and the recorded size is the number of those bytes.
C11_DataDecodesToContent ==
    LocProduced =>
        /\ IsSome(locContent)
        /\ Base64Decode(LocOutDoc.data) = Utf8(The(locContent).text)
        /\ LocOutDoc.size = <<ToString(Len(Utf8(The(locContent).text)))>>

\* a content of one two-byte character: one padded group, size 2
C11_Witness ==
    /\ LocProduced
    /\ The(locContent).text = <<"é">>
    /\ LocOutDoc.data = <<"w", "6", "k", "=">>
    /\ LocOutDoc.size = <<"2">>

\* a generated content with a substituted placeholder
C11_WitnessGenerated ==
    /\ LocProduced
    /\ LocOptions.type = Some("pdf")
    /\ The(locContent).raw = <<"{{PATIENT_ID}}", "|", "{{APP_NAME}}">>
    /\ Base64Decode(LocOutDoc.data) = Utf8(<<"patient-123", "|", "FHIR Test App">>)

\* C12: for every type key, the attachment contentType of the document is
\* the contentType of the key's entry in the mapping table, whatever the
\* caller's options.
C12_ContentTypeFromMapping ==
    LocProduced => LocOutDoc.contentType = <<LocMapping.contentType>>

C12_Witness ==
    /\ LocProduced
    /\ locEntry = "library"
    /\ LocOptions.type = Some("pdf")
    /\ LocOutDoc.contentType = <<"application/pdf">>

\* the options of the library call are complete and its type is a key
ValidLibraryCall ==
    /\ LocCalled /\ locEntry = "library"
    /\ TruthyStr(LocOptions.type) /\ The(LocOptions.type) \in TypeKeys
    /\ TruthyStr(LocOptions.patientId) /\ TruthyStr(LocOptions.server)

\* C17: localizeDocumentReference returns the document and writes
\* <outputDir or projectRoot/localized/<server>>/<type>-note.json exactly
\* when writeToFile is not false; with writeToFile false it creates no
\* directory and writes no file; the file written parses back to the
\* document returned, which is the one localizeTemplate gives whatever
\* writeToFile is.
C17_OutputFileUnlessWriteToFileFalse ==
    (ValidLibraryCall /\ LocProduced)
    => /\ LocOutDoc
            = JSONParse(LocalizeTemplate(LocGivenTemplate,
                                         [LocOptions EXCEPT !.writeToFile = None],
                                         The(locContent).base64,
                                         <<ToString(The(locContent).size)>>,
                                         LocMapping.contentType).text).val
       /\ IF LocOptions.writeToFile = Some(FALSE)
          THEN /\ locOutput = None
               /\ locFsOps \cap {"mkdirSync", "writeFileSync"} = {}
          ELSE /\ IsSome(locOutput)
               /\ {"mkdirSync", "writeFileSync"} \subseteq locFsOps
               /\ The(locOutput).dir
                    = (IF IsSome(LocOptions.outputDir) THEN The(LocOptions.outputDir)
                       ELSE The(locRoot) \o <<"localized", The(LocOptions.server)>>)
               /\ The(locOutput).name = <<The(LocOptions.type), "-note.json">>
               /\ JSONParse(The(locOutput).text).ok
               /\ JSONParse(The(locOutput).text).val = LocOutDoc

\* writeToFile false: the document is returned and nothing is written
C17_Witness ==
    /\ ValidLibraryCall /\ LocProduced
    /\ LocOptions.writeToFile = Some(FALSE)
    /\ locOutput = None

\* writeToFile absent: the file is in <projectRoot>/localized/<server>
C17_WitnessWritten ==
    /\ ValidLibraryCall /\ LocProduced
    /\ LocOptions.writeToFile = None /\ LocOptions.outputDir = None
    /\ IsSome(locOutput)
    /\ The(locOutput).dir = The(locRoot) \o <<"localized", "smart">>

\* the whitespace-separated words of a name
Words(name) == SelectSeq(name, LAMBDA t : t \notin RegexSpace)
FirstWord(name) == Words(name)[1]
LastWord(name) == Words(name)[Len(Words(name))]

\* the names the content is personalised with
LocPatientName ==
    IF IsSome(LocOptions.patientName) THEN The(LocOptions.patientName) ELSE DefaultPatientName
LocAuthorName ==
    LET display == IF IsSome(LocOptions.authorDisplay) THEN The(LocOptions.authorDisplay)
                   ELSE DefaultAuthorDisplay
    IN IF Head(display) = "Dr." THEN Tail(display) ELSE display

\* C19: in the substituted content the given-name placeholders hold the
\* first and the family-name placeholders the last whitespace-separated word
\* of the patient's name and of the author's name without its leading 'Dr. '.
C19_GivenFirstFamilyLast ==
    (IsSome(locContent) /\ The(locContent).raw = NameContent)
    => The(locContent).text
         = <<FirstWord(LocPatientName), "|", LastWord(LocPatientName), "|",
             FirstWord(LocAuthorName), "|", LastWord(LocAuthorName)>>

\* encounterContained is a string that JSON.parse rejects
ContainedStringInvalid ==
    /\ IsSome(LocOptions.encounterContained)
    /\ The(LocOptions.encounterContained).kind = "string"
    /\ ~JSONParse(The(LocOptions.encounterContained).text).ok

\* C20: with an encounterContained string that is not valid JSON the
\* invocation fails with the error that names --encounter-contained, and it
\* yields no document and no output file.
C20_InvalidContainedIsFatal ==
    (LocCalled /\ locEntry \in {"library", "cli"} /\ IsSome(locRoot)
     /\ locPc # "awaitGenerator" /\ ContainedStringInvalid)
    => /\ LocFailed
       /\ locError = Some(ErrInvalidContained)
       /\ locDoc = None
       /\ locOutput = None

-----------------------------------------------------------------------------
(* Properties of generateContent *)

GenCalled == IsSome(locGen)
GenEnded == GenCalled /\ locPc # "awaitGenerator"

\* C18: once a call of generateContent has ended, by a return or by any
\* error (generator not found, unknown generator, generator did not create
\* its file, exception in the generator), the working directory of the
\* process is the one the call was made from.
C18_CwdRestoredOnEveryExit ==
    GenEnded => cwd = The(locGen).cwd

\* the call was made from a directory other than the generators'
GenEndedElsewhere == GenEnded /\ The(locGen).cwd \notin {SampleContentDir(d) : d \in Dirs}

C18_WitnessSuccess ==
    /\ GenEndedElsewhere /\ locEntry = "generateContent"
    /\ locError = None /\ IsSome(locContent)

C18_WitnessUnknownGenerator ==
    GenEndedElsewhere /\ locError = Some(ErrUnknownGenerator)

C18_WitnessNoFile ==
    GenEndedElsewhere /\ locError = Some(ErrGeneratorNoFile)

C18_WitnessException ==
    GenEndedElsewhere /\ locError = Some(ErrGeneratorFailed)

C18_WitnessInLocalizer ==
    GenEndedElsewhere /\ locEntry = "legacy-cli" /\ IsSome(locDoc)

-----------------------------------------------------------------------------
(* Properties of the parse of the substituted template *)

\* the template text after the replace chain of the copy that was called
LocSubstituted ==
    ReplaceInTemplate(LocGivenTemplate,
        IF locEntry = "legacy-cli"
        THEN LegacyTemplatePairs(LocOptions, The(locContent).base64,
                                 SizeText(The(locContent)), LocMapping.contentType)
        ELSE TemplatePairs(LocOptions, The(locContent).base64,
                           SizeText(The(locContent)), LocMapping.contentType))

\* every string of the substituted text is a JSON string literal
LocStrings ==
    {LocSubstituted.subject, LocSubstituted.subjectDisplay, LocSubstituted.contentType,
     LocSubstituted.data}
    \cup (IF IsSome(LocSubstituted.encounter)
          THEN UNION {{The(f) : f \in {e.reference, e.display} \ {None}} :
                        e \in {The(LocSubstituted.encounter)[i] :
                                 i \in 1..Len(The(LocSubstituted.encounter))}}
          ELSE {})
LocWellFormed == \A str \in LocStrings : StringLiteralOk(str)

\* the invocation has ended and had reached localizeTemplate
LocLocalized ==
    /\ LocCalled /\ locPc # "awaitGenerator" /\ locEntry # "generateContent"
    /\ IsSome(locContent)

\* C21: when the template text after substitution is not JSON, the
\* localization fails with the parse error, returns no document and writes
\* no file; a document is returned or written only if the text parsed.
C21_UnparsableTemplateIsFatal ==
    /\ (LocLocalized /\ ~LocWellFormed)
         => /\ LocFailed
            /\ locError = Some(ErrSyntax)
            /\ locDoc = None
            /\ locOutput = None
            /\ "writeFileSync" \notin locFsOps
    /\ (LocCalled /\ locEntry # "generateContent" /\ (IsSome(locDoc) \/ IsSome(locOutput)))
         => (IsSome(locContent) /\ LocWellFormed)

\* a patient name with a double quote
C21_Witness ==
    /\ LocLocalized /\ LocFailed
    /\ LocOptions.patientName = Some(<<"Mary", " ", "O\"Brien">>)
    /\ locError = Some(ErrSyntax)
    /\ locDoc = None /\ locOutput = None

\* a template that is not JSON before any substitution
C21_WitnessMalformedTemplate ==
    /\ LocLocalized /\ LocFailed
    /\ LocGivenTemplate = MalformedTemplate
    /\ locError = Some(ErrSyntax)
    /\ locDoc = None /\ locOutput = None

-----------------------------------------------------------------------------
(* Properties of project-root discovery *)

\* the directories from dir up to the filesystem root, dir included
Ancestors(dir) == {SubSeq(dir, 1, n) : n \in 0..Len(dir)}

\* the ancestors-or-self of the working directory that hold .fhir-configs
Candidates == Ancestors(cwd) \cap sentinel

\* C22: the project-root walk of execute ends for every starting directory;
\* it finds the nearest directory among the working directory and its
\* ancestors, the filesystem root included, that holds .fhir-configs, and
\* it fails with the error 'Could not find .fhir-configs directory' when
\* none of them does.
C22_RootWalkFindsNearest ==
    IsSome(spec)
    => IF Candidates = {}
       THEN /\ projectRoot = None
            /\ pc = "threw"
            /\ error = Some(ErrNoRoot)
            /\ NoHttp
       ELSE /\ IsSome(projectRoot)
            /\ The(projectRoot) \in Candidates
            /\ \A d \in Candidates : Len(d) <= Len(The(projectRoot))
            /\ error # Some(ErrNoRoot)

\* the only .fhir-configs is in the filesystem root, the walk starts below
C22_Witness ==
    /\ IsSome(spec)
    /\ cwd # <<>>
    /\ sentinel = {<<>>}
    /\ projectRoot = Some(<<>>)

\* the walk starts in the filesystem root and finds nothing
C22_WitnessFails ==
    /\ IsSome(spec)
    /\ cwd = <<>>
    /\ sentinel \cap Ancestors(cwd) = {}
    /\ error = Some(ErrNoRoot)

-----------------------------------------------------------------------------
(* Properties of the mapping table *)

\* the entry names exactly one of contentFile and contentGenerator
OneContentSource(mapping) ==
    IsSome(mapping.contentFile) # IsSome(mapping.contentGenerator)

\* the type of the invocation is a key of the table of its copy
LocSupportedType ==
    /\ LocCalled /\ locEntry \in {"library", "cli", "legacy-cli"}
    /\ IsSome(LocOptions.type)
    /\ The(LocOptions.type) \in DOMAIN TableOf(locEntry)

\* C24: every entry of TEMPLATE_MAPPINGS has exactly one content source, a
\* file or a generator, never both and never neither, and the localization
\* of a supported type never ends in 'No content source specified in
\* mapping'.
C24_ExactlyOneContentSource ==
    /\ \A k \in TypeKeys : OneContentSource(TEMPLATE_MAPPINGS[k])
    /\ \A k \in LegacyTypeKeys : OneContentSource(LEGACY_TEMPLATE_MAPPINGS[k])
    /\ LocSupportedType
         => /\ locError # Some(ErrNoContentSource)
            /\ OneContentSource(LocMapping)

\* a generator-backed type was localized to the end
C24_Witness ==
    /\ LocSupportedType /\ LocProduced
    /\ LocOptions.type = Some("large")
    /\ IsSome(LocMapping.contentGenerator) /\ LocMapping.contentFile = None

-----------------------------------------------------------------------------
(* Properties of the single request *)

ExecEnded == pc \in {"threw", "exited", "returned"}
NonJsonResponse == IsSome(parsed) /\ The(parsed).ext = "txt"

\* C25 as amended: one invocation of execute calls fetch at most once; a
\* network error ends it with the error thrown and no response, a status
\* >= 400 ends it with process.exit(1), and a response that is not JSON
\* causes no second request and ends the invocation as its status says: by
\* process.exit(1) for a status >= 400, by a normal return otherwise.
C25_AtMostOneRequest ==
    /\ fetchCount <= 1
    /\ fetchCount = 1 <=> Issued
    /\ error = Some(ErrFetch) => (pc = "threw" /\ response = None /\ fetchCount = 1)
    /\ (ExecEnded /\ IsSome(response) /\ The(response).status >= 400)
         => (pc = "exited" /\ exitCode = Some(1))
    /\ (ExecEnded /\ IsSome(response) /\ The(response).status < 400)
         => (pc = "returned" /\ exitCode = None /\ error = None)

\* C25: one invocation of execute issues at most one HTTP request, and every
\* failure (network error, response that is not JSON, status >= 400) ends
\* the invocation with a thrown error or a process exit.
C25_EveryFailureThrowsOrExits ==
    /\ fetchCount <= 1
    /\ (ExecEnded /\ (error = Some(ErrFetch) \/ NonJsonResponse
                      \/ (IsSome(response) /\ The(response).status >= 400)))
         => (pc = "threw" \/ exitCode = Some(1))

\* a status >= 400 with a body that is not JSON: one request, exit code 1
C25_Witness ==
    /\ pc = "exited" /\ NonJsonResponse
    /\ The(response).status = 400
    /\ fetchCount = 1 /\ exitCode = Some(1)

\* the network error: one request, no response
C25_WitnessNetworkError ==
    /\ pc = "threw" /\ error = Some(ErrFetch) /\ fetchCount = 1 /\ response = None

-----------------------------------------------------------------------------
(* Properties of the output directory over several runs *)

\* the output directory of the invocation under way
RunDir == OutputDir(The(spec), cwd)

\* the response-body files in a directory
BodyFilesIn(dir) == {n \in {"response-body.json", "response-body.txt"} : WrittenIn(dir, n)}

\* the invocation has written both files of its response
RunWrote == IsSome(spec) /\ IsSome(response) /\ pc \in {"bodyWritten", "exited", "returned"}

\* C28: after any sequence of execute invocations that write to one output
\* directory, the directory holds exactly one response-body file, and that
\* file and response-metadata.json describe the most recent response; no
\* body file of an earlier response with the other extension is left.
C28_OneBodyFileOfLatestResponse ==
    RunWrote
    => /\ BodyFilesIn(RunDir) = {BodyFileName(The(parsed))}
       /\ outFiles[RunDir][BodyFileName(The(parsed))]
            = Some(BodyFileContent(The(response), The(parsed)))
       /\ The(outFiles[RunDir]["response-metadata.json"]).val.httpStatus
            = The(response).status

-----------------------------------------------------------------------------
(* Properties of the failures before the HTTP call *)

\* the body file named by the spec is missing or is not JSON
BodyFileUnusable ==
    /\ TruthyStr(The(spec).bodyFile)
    /\ \/ BodyStore[The(The(spec).bodyFile)] = None
       \/ ~JSONParse(The(BodyStore[The(The(spec).bodyFile)])).ok

\* the errors execute throws before it calls fetch
PreHttpErrors ==
    {"Could not find .fhir-configs directory", "Config not found", "ENOENT", "SyntaxError",
     "No FHIR configs found in .fhir-configs/", "No FHIR config found",
     "Multiple FHIR configs found"}

FailedBeforeHttp == pc = "threw" /\ The(error).kind \in PreHttpErrors

\* C27, in every state: an invocation that cannot find the project root or
\* whose body file is missing or not JSON fails, and an invocation that
\* failed before the HTTP call has issued no request and received no
\* response.
NoHttpAfterEarlyFailure ==
    /\ (IsSome(spec) /\ (Candidates = {} \/ BodyFileUnusable)) => FailedBeforeHttp
    /\ FailedBeforeHttp => NoHttp

\* C27, in every step: a step that ends an invocation before the HTTP call
\* leaves every file of every output directory as it was, and a step that
\* creates or changes response-metadata.json or response-body.* is taken
\* only after the response was received.
OutputFilesOnlyAfterResponse ==
    /\ (pc = "idle" /\ pc' = "threw") => outFiles' = outFiles
    /\ outFiles' # outFiles => (IsSome(response) /\ IsSome(request) /\ fetchCount = 1)

-----------------------------------------------------------------------------
(* Properties of the two project-root walks *)

\* what execute's walk gives from the working directory, as <<>> or <<dir>>
ExecRootHere ==
    IF ExecFindRoot(cwd, sentinel).ok THEN Some(ExecFindRoot(cwd, sentinel).dir) ELSE None

\* C29: from every working directory the localizer's getProjectRoot and the
\* project-root walk of execute give the same directory or fail both, also
\* when the only .fhir-configs is in the filesystem root and when the
\* working directory is the filesystem root.
C29_RootWalksAgree ==
    (LocCalled /\ locEntry = "library" /\ locPc # "awaitGenerator")
    => /\ locRoot = ExecRootHere
       /\ locError = Some(ErrNoProjectRoot) <=> ExecRootHere = None

-----------------------------------------------------------------------------
(* Properties of the config server *)

\* the request is a submission of a whole configuration of the name n
SavesName(r, n) ==
    r.url = "/save-config" /\ r.sent \in {"cfgA", "cfgA2", "cfgB"} /\ ConfigOf[r.sent].name = n

\* the request asks for the deletion of the config of the name n
DeletesName(r, n) ==
    r.url = "/delete-config" /\ r.sent \in {"delA", "delB"} /\ DeleteName(r.sent) = n

\* the position of an ended request in the order of the end events
EndedAt(id) == CHOOSE k \in 1..Len(srvLog) : srvLog[k] = id

Ended(id) == srvReqs[id].phase = "ended"

\* the configuration the file <n>.json holds, read back as execute reads it
FileHolds(n) ==
    IF configDir[ConfigFileName(n)] = None THEN None
    ELSE Some(JSONParse(The(configDir[ConfigFileName(n)]).text).val)

\* C23: when two /save-config submissions of one config name are handled,
\* in whatever order their data and end events come, then, as long as no
\* later request touched that name, the config file holds the whole
\* configuration of the submission whose end event came last, and both
\* submissions were answered 200.
C23_ConcurrentSavesLastEndWins ==
    \A i, j \in DOMAIN srvReqs : \A n \in ConfigNames :
        (/\ i # j
         /\ Ended(i) /\ Ended(j)
         /\ SavesName(srvReqs[i], n) /\ SavesName(srvReqs[j], n)
         /\ EndedAt(i) < EndedAt(j)
         /\ \A k \in (EndedAt(j) + 1)..Len(srvLog) :
               ~SavesName(srvReqs[srvLog[k]], n) /\ ~DeletesName(srvReqs[srvLog[k]], n))
        => /\ srvReqs[i].status = Some(200)
           /\ srvReqs[j].status = Some(200)
           /\ FileHolds(n) = Some(JObj(srvReqs[j].sent))

\* the second submission arrived and ended between the data events and the
\* end event of the first; the file holds the first, which ended last
C23_Witness ==
    /\ Len(srvReqs) = 2
    /\ srvReqs[1].sent = "cfgA" /\ srvReqs[2].sent = "cfgA2"
    /\ srvReqs[1].url = "/save-config" /\ srvReqs[2].url = "/save-config"
    /\ srvLog = <<2, 1>>
    /\ srvReqs[1].status = Some(200) /\ srvReqs[2].status = Some(200)
    /\ FileHolds("a") = Some(JObj("cfgA"))

\* what the file of the name n is to hold after the first k end events:
\* the configuration of the last submission of that name, unless it was
\* deleted since
RECURSIVE HeldAfter(_, _)
HeldAfter(n, k) ==
    IF k = 0 THEN None
    ELSE IF SavesName(srvReqs[srvLog[k]], n) THEN Some(JObj(srvReqs[srvLog[k]].sent))
    ELSE IF DeletesName(srvReqs[srvLog[k]], n) THEN None
    ELSE HeldAfter(n, k - 1)

\* execute was called with a configName and found the project root
ExecutedNamed == IsSome(spec) /\ IsSome(projectRoot) /\ TruthyStr(The(spec).configName)

\* C30: after any sequence of /save-config and /delete-config requests,
\* execute with configName n loads the configuration most recently saved
\* under n if there is one that was not deleted since, and fails otherwise;
\* a /save-config without fhirBaseUrl or name is answered 400, a
\* /delete-config for a name with no file 404, and neither changes the
\* config directory.
C30_ExecuteLoadsLastSaved ==
    /\ \A n \in ConfigNames : FileHolds(n) = HeldAfter(n, Len(srvLog))
    /\ configDir[<<"a", ".json", ".bak">>] = None
    /\ \A k \in 1..Len(srvLog) :
         /\ (srvReqs[srvLog[k]].url = "/save-config"
              /\ srvReqs[srvLog[k]].sent \in {"noUrl", "noName"})
             => srvReqs[srvLog[k]].status = Some(400)
         /\ \A n \in ConfigNames :
              (DeletesName(srvReqs[srvLog[k]], n) /\ HeldAfter(n, k - 1) = None)
              => srvReqs[srvLog[k]].status = Some(404)
    /\ ExecutedNamed =>
         IF HeldAfter(The(The(spec).configName), Len(srvLog)) = None
         THEN /\ pc = "threw"
              /\ The(error).kind \in {"Config not found", "ENOENT"}
              /\ NoHttp
         ELSE /\ pc = "fetching"
              /\ The(request).url
                   = <<ConfigOf[The(HeldAfter(The(The(spec).configName), Len(srvLog))).v]
                          .fhirBaseUrl,
                       The(spec).path>>

\* saved, then deleted: execute fails
C30_Witness ==
    /\ ExecutedNamed /\ The(spec).configName = Some("a")
    /\ Len(srvLog) = 2
    /\ SavesName(srvReqs[srvLog[1]], "a")
    /\ DeletesName(srvReqs[srvLog[2]], "a")
    /\ pc = "threw"

\* saved twice: execute loads the second
C30_WitnessLoaded ==
    /\ ExecutedNamed /\ The(spec).configName = Some("a")
    /\ srvLog = <<1, 2>>
    /\ srvReqs[1].sent = "cfgA" /\ srvReqs[2].sent = "cfgA2"
    /\ pc = "fetching"
    /\ The(request).url[1] = "https://four/fhir"

-----------------------------------------------------------------------------
(* Properties of overlapping localizer calls *)

\* the second call was made while the first was suspended at its generator,
\* both went through generateContent, and both have ended
OverlappedAndEnded ==
    /\ Len(locCalls) = 2
    /\ locCalls[2].during = {1}
    /\ \A i \in 1..2 : "chdir" \in locCalls[i].out.ops
    /\ Suspended(locCalls) = {}

\* C26: when a second localizeDocumentReference call for a generator-backed
\* type starts while the first is suspended awaiting its generator, then after
\* both calls have completed the working directory of the process is the one
\* it had before the first call.
C26_OverlappingCallsRestoreCwd ==
    OverlappedAndEnded => cwd = locCalls[1].cwd

=============================================================================
